----------------------------- MODULE MCRegistry -----------------------------
(* Small instances of Registry for TLC.                                    *)
EXTENDS Registry, TLC

(* Nothing there yet; a subscriber and one of its services written past    *)
(* the allocator.                                                          *)
EmptyOrImported == {{}, {<<0, 1>>, <<1, 2>>}}

Interchangeable == Permutations(Workers)

=============================================================================
