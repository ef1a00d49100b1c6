--------------------------- MODULE RegistryProofs ---------------------------
(***************************************************************************)
(* Proofs about Registry, for any numbers of workers, accounts and         *)
(* services.  What a worker knows of a sequence or of a record, it knows   *)
(* because it has locked a row that whoever changes it must lock too.      *)
(***************************************************************************)
EXTENDS Registry, TLAPS

CreateCalls == [kind: {"create"}, series: Series, profile: Profiles]

UpdateCalls == [kind: {"update"}, ref: References, profile: Profiles]

SwitchCalls == [kind: {"set_active"}, ref: References, on: BOOLEAN]

Creating(w) ==
    \/ pc[w] \in {"lock_subscriber", "lock_sequence", "create_sequence", "allocate", "insert"}
    \/ pc[w] = "commit" /\ call[w].kind = "create"

(* w holds the row of the record it changes.                               *)
Changing(w) ==
    \/ pc[w] \in {"lock_owner", "write"}
    \/ pc[w] = "commit" /\ call[w].kind # "create"

(* w has a number for the record it creates.                               *)
Numbered(w) ==
    \/ pc[w] = "insert"
    \/ pc[w] = "commit" /\ call[w].kind = "create"

-----------------------------------------------------------------------------
(* References.                                                             *)

LEMMA ReferenceParts ==
    /\ \A k \in Series : \A n \in 1..Limit(k) : <<k, n>> \in References
    /\ \A r \in References : r[1] \in Series /\ r[2] \in 1..Limit(r[1]) /\ r = <<r[1], r[2]>>
    /\ \A k \in Series : Limit(k) \in Nat \ {0}
    /\ \A k \in Series \ {0} : <<0, k>> \in References
<1>1. \A k \in Series : Limit(k) \in Nat \ {0}
  BY RegistryAssumption DEF Limit
<1>2. ASSUME NEW k \in Series, NEW n \in 1..Limit(k) PROVE <<k, n>> \in References
  BY DEF References
<1>3. ASSUME NEW r \in References
      PROVE  r[1] \in Series /\ r[2] \in 1..Limit(r[1]) /\ r = <<r[1], r[2]>>
  <2>1. PICK k \in Series : r \in {k} \X (1..Limit(k))
    BY DEF References
  <2> QED BY <2>1
<1>4. ASSUME NEW k \in Series \ {0} PROVE <<0, k>> \in References
  <2>1. k \in 1..Limit(0) /\ 0 \in Series
    BY RegistryAssumption DEF Series, Accounts, Limit
  <2> QED BY <1>2, <2>1
<1> QED BY <1>1, <1>2, <1>3, <1>4

-----------------------------------------------------------------------------
(* Type correctness.  A worker past a statement has what it produced.      *)

Ready(w) ==
    /\ Creating(w) => call[w] \in CreateCalls
    /\ pc[w] = "lock_subscriber" => call[w].series # 0
    /\ pc[w] = "allocate" => draft[w].number # 0
    /\ Numbered(w) => draft[w].number \in 1..Limit(call[w].series)
    /\ pc[w] = "lock_record" \/ Changing(w) =>
         call[w] \in UpdateCalls \cup SwitchCalls /\ call[w].ref \in InUse
    /\ pc[w] = "lock_owner" => call[w].ref[1] # 0
    /\ pc[w] \in {"lock_owner", "write", "commit"} => draft[w].record \in Record

TypeInv ==
    /\ TypeOK
    /\ \A k \in Series : nextValue[k] # 0
    /\ \A w \in Workers : Ready(w)

LEMMA OthersReady ==
    ASSUME NEW v, Ready(v), InUse \subseteq InUse',
           pc'[v] = pc[v], call'[v] = call[v], draft'[v] = draft[v]
    PROVE  Ready(v)'
BY DEF Ready, Creating, Changing, Numbered

LEMMA NoneNoRecord == None \notin Record /\ None \notin Nat /\ None \notin Answers
BY RegistryAssumption

LEMMA CallKinds ==
    /\ CreateCalls \cup UpdateCalls \cup SwitchCalls \subseteq Call
    /\ \A c \in CreateCalls : c.kind = "create" /\ c.series \in Series /\ c.profile \in Profiles
    /\ \A c \in UpdateCalls : c.kind = "update" /\ c.ref \in References /\ c.profile \in Profiles
    /\ \A c \in SwitchCalls : c.kind = "set_active" /\ c.ref \in References /\ c.on \in BOOLEAN
<1>1. CreateCalls \cup UpdateCalls \cup SwitchCalls \subseteq Call
  BY DEF CreateCalls, UpdateCalls, SwitchCalls, Call
<1>2. \A c \in CreateCalls : c.kind = "create" /\ c.series \in Series /\ c.profile \in Profiles
  BY DEF CreateCalls
<1>3. \A c \in UpdateCalls : c.kind = "update" /\ c.ref \in References /\ c.profile \in Profiles
  BY DEF UpdateCalls
<1>4. \A c \in SwitchCalls : c.kind = "set_active" /\ c.ref \in References /\ c.on \in BOOLEAN
  BY DEF SwitchCalls
<1> QED BY <1>1, <1>2, <1>3, <1>4

LEMMA AskedRecord ==
    ASSUME NEW record \in Record, NEW c \in UpdateCalls \cup SwitchCalls
    PROVE  Asked(record, c) \in Record
BY CallKinds DEF Asked, Record

(* The rows a commit writes are rows.                                      *)
LEMMA Committed ==
    ASSUME TypeInv, NEW w \in Workers, pc[w] = "commit"
    PROVE  /\ Target(w) \in References
           /\ Saved(w) \in Record
           /\ call[w].kind # "create" => Target(w) \in InUse
           /\ call[w].kind = "create" =>
                /\ call[w].series \in Series
                /\ Target(w) = <<call[w].series, draft[w].number>>
                /\ draft[w].number \in 1..Limit(call[w].series)
<1> USE DEF TypeInv, Ready
<1>1. CASE call[w].kind = "create"
  <2>1. call[w] \in CreateCalls /\ draft[w].number \in 1..Limit(call[w].series)
    BY <1>1 DEF Creating, Numbered
  <2> QED BY <1>1, <2>1, CallKinds, ReferenceParts DEF Target, Saved
<1>2. CASE call[w].kind # "create"
  <2>1. call[w] \in UpdateCalls \cup SwitchCalls /\ call[w].ref \in InUse /\ draft[w].record \in Record
    BY <1>2 DEF Changing
  <2>2. records[call[w].ref] \in Record
    BY <2>1 DEF TypeOK, InUse
  <2>3. [records[call[w].ref] EXCEPT !.on = draft[w].record.on] \in Record
    BY <2>1, <2>2 DEF Record
  <2> QED BY <1>2, <2>1, <2>3 DEF Target, Saved, InUse
<1> QED BY <1>1, <1>2

LEMMA InUseGrows ==
    ASSUME TypeInv, NEW w \in Workers, Commit(w)
    PROVE  InUse' = InUse \cup {Target(w)}
<1>1. Target(w) \in References /\ Saved(w) # None
  BY Committed, NoneNoRecord DEF Commit
<1>2. records \in [References -> Record \cup {None}]
  BY DEF TypeInv, TypeOK
<1>3. records' = [records EXCEPT ![Target(w)] = Saved(w)]
  BY DEF Commit
<1> QED BY <1>1, <1>2, <1>3 DEF InUse

(* A step of w leaves the other workers ready.                             *)
LEMMA StepTyped ==
    ASSUME TypeInv, NEW w \in Workers, TypeOK', \A k \in Series : nextValue'[k] # 0,
           InUse \subseteq InUse', Ready(w)',
           \A v \in Workers \ {w} : pc'[v] = pc[v] /\ call'[v] = call[v] /\ draft'[v] = draft[v]
    PROVE  TypeInv'
<1>1. ASSUME NEW v \in Workers \ {w} PROVE Ready(v)'
  BY OthersReady DEF TypeInv
<1> QED BY <1>1 DEF TypeInv

(* The end of a transaction, when its rows are written or not.             *)
LEMMA FinishTyped ==
    ASSUME TypeInv, NEW w \in Workers, NEW how \in Answers, Finish(w, how),
           records' \in [References -> Record \cup {None}],
           nextValue' \in [Series -> Nat \cup {None}],
           \A k \in Series : nextValue'[k] # 0, InUse \subseteq InUse'
    PROVE  TypeInv'
<1>1. /\ pc' = [pc EXCEPT ![w] = "done"] /\ answer' = [answer EXCEPT ![w] = how]
      /\ rowLocks' = [rowLocks EXCEPT ![w] = {}] /\ draft' = [draft EXCEPT ![w] = NoDraft]
      /\ imported' = imported /\ changes' = changes /\ call' = call
  BY DEF Finish, Goto, around
<1>2. NoDraft \in Draft
  BY DEF NoDraft, Draft
<1>3. TypeOK'
  BY <1>1, <1>2 DEF TypeInv, TypeOK, Steps
<1>4. pc'[w] = "done"
  BY <1>1 DEF TypeInv, TypeOK
<1>5. Ready(w)'
  BY <1>4 DEF Ready, Creating, Changing, Numbered
<1> QED BY <1>1, <1>3, <1>5, StepTyped DEF TypeInv, TypeOK

LEMMA RefuseTyped ==
    ASSUME TypeInv, NEW w \in Workers, NEW how \in Answers, Refuse(w, how)
    PROVE  TypeInv'
BY FinishTyped DEF Refuse, rows, InUse, TypeInv, TypeOK

(* A step that only concerns the worker's own variables.                   *)
LEMMA LocalTyped ==
    ASSUME TypeInv, NEW w \in Workers, UNCHANGED rows, imported' = imported,
           changes' \in Nat,
           NEW step \in Steps, pc' = [pc EXCEPT ![w] = step],
           NEW c \in Call \cup {None}, call' = [call EXCEPT ![w] = c],
           NEW held \in SUBSET Rows, rowLocks' = [rowLocks EXCEPT ![w] = held],
           NEW d \in Draft, draft' = [draft EXCEPT ![w] = d],
           answer' \in [Workers -> Answers \cup {None}],
           Ready(w)'
    PROVE  TypeInv'
<1>1. TypeOK'
  BY DEF TypeInv, TypeOK, rows
<1>2. InUse' = InUse
  BY DEF InUse, rows
<1>3. \A v \in Workers \ {w} : pc'[v] = pc[v] /\ call'[v] = call[v] /\ draft'[v] = draft[v]
  BY DEF TypeInv, TypeOK
<1> QED BY <1>1, <1>2, <1>3, StepTyped DEF rows, TypeInv

LEMMA BeginTyped ==
    ASSUME TypeInv, NEW w \in Workers,
           NEW c, NEW step, Begin(w, c, step), changes' \in Nat,
           \/ c \in CreateCalls /\ step = IF c.series = 0 THEN "lock_sequence" ELSE "lock_subscriber"
           \/ c \in UpdateCalls \cup SwitchCalls /\ step = "lock_record" /\ c.ref \in InUse
    PROVE  TypeInv'
<1>1. step \in Steps /\ c \in Call
  BY CallKinds DEF Steps
<1>2. /\ pc' = [pc EXCEPT ![w] = step] /\ call' = [call EXCEPT ![w] = c]
      /\ UNCHANGED rows /\ imported' = imported /\ rowLocks' = rowLocks /\ draft' = draft
      /\ answer' = answer
  BY DEF Begin, Goto
<1>3. rowLocks' = [rowLocks EXCEPT ![w] = rowLocks[w]] /\ rowLocks[w] \in SUBSET Rows
  BY <1>2 DEF TypeInv, TypeOK
<1>4. draft' = [draft EXCEPT ![w] = draft[w]] /\ draft[w] \in Draft
  BY <1>2 DEF TypeInv, TypeOK
<1>5. pc'[w] = step /\ call'[w] = c /\ InUse' = InUse
  BY <1>2 DEF TypeInv, TypeOK, InUse, rows
<1>6. Ready(w)'
  BY <1>5, CallKinds DEF Ready, Creating, Changing, Numbered
<1>7. answer' \in [Workers -> Answers \cup {None}]
  BY <1>2 DEF TypeInv, TypeOK
<1> QED BY <1>1, <1>2, <1>3, <1>4, <1>6, <1>7, LocalTyped

LEMMA CreateTyped ==
    ASSUME TypeInv, NEW w \in Workers,
           \/ SubmitCreate(w) \/ LockSubscriber(w) \/ LockSequence(w) \/ CreateSequence(w)
           \/ Allocate(w) \/ Insert(w)
    PROVE  TypeInv'
<1> USE DEF TypeInv, TypeOK
<1> DEFINE k == call[w].series
<1>0. /\ Ready(w)
      /\ pc[w] \in Steps /\ draft[w] \in Draft /\ rowLocks[w] \in SUBSET Rows
      /\ call[w] \in Call \cup {None}
      /\ draft[w].number \in Nat
  BY DEF Draft
<1>1. CASE SubmitCreate(w)
  <2>1. PICK j \in Series, p \in NewProfiles :
            Begin(w, [kind |-> "create", series |-> j, profile |-> p],
                  IF j = 0 THEN "lock_sequence" ELSE "lock_subscriber")
    BY <1>1 DEF SubmitCreate
  <2>2. [kind |-> "create", series |-> j, profile |-> p] \in CreateCalls
    BY RegistryAssumption DEF CreateCalls
  <2>3. changes' \in Nat
    BY <1>1 DEF SubmitCreate
  <2> QED BY <2>1, <2>2, <2>3, BeginTyped
<1>2. ASSUME pc[w] \in {"lock_subscriber", "lock_sequence", "create_sequence", "allocate", "insert"}
      PROVE  call[w] \in CreateCalls /\ k \in Series /\ call[w].profile \in Profiles
  BY <1>0, <1>2, CallKinds DEF Ready, Creating
<1>3. CASE LockSubscriber(w)
  <2>1. pc[w] = "lock_subscriber" /\ k \in Series \ {0}
    BY <1>0, <1>2, <1>3 DEF LockSubscriber, Ready
  <2>2. rowLocks[w] \cup {RecordRow(<<0, k>>)} \in SUBSET Rows
    BY <1>0, <2>1, ReferenceParts DEF RecordRow, Rows
  <2>3. pc'[w] = "lock_sequence" /\ call'[w] = call[w] /\ draft'[w] = draft[w]
    BY <1>3 DEF LockSubscriber, Goto
  <2>4. Ready(w)'
    BY <1>2, <2>1, <2>3 DEF Ready, Creating, Changing, Numbered
  <2> QED BY <1>0, <1>3, <2>2, <2>4, LocalTyped DEF LockSubscriber, Goto, Hold, around, Steps
<1>4. CASE LockSequence(w)
  <2>1. pc[w] = "lock_sequence" /\ k \in Series /\ call[w] \in CreateCalls
    BY <1>2, <1>4 DEF LockSequence
  <2>2. /\ UNCHANGED rows /\ imported' = imported /\ changes' = changes /\ call' = call
        /\ answer' = answer
    BY <1>4 DEF LockSequence, around
  <2>3. CASE nextValue[k] = None
    <3>1. pc'[w] = "create_sequence" /\ call'[w] = call[w] /\ draft'[w] = draft[w]
      BY <1>4, <2>3 DEF LockSequence, Goto
    <3>2. Ready(w)'
      BY <2>1, <3>1 DEF Ready, Creating, Changing, Numbered
    <3> QED BY <1>0, <1>4, <2>2, <2>3, <3>2, LocalTyped DEF LockSequence, Goto, Steps
  <2>4. CASE nextValue[k] # None
    <3> DEFINE d == [draft[w] EXCEPT !.number = nextValue[k]]
    <3>1. nextValue[k] \in Nat \ {0}
      BY <2>1, <2>4
    <3>2. d \in Draft /\ d.number # 0
      BY <1>0, <3>1 DEF Draft
    <3>3. rowLocks[w] \cup {SequenceRow(k)} \in SUBSET Rows
      BY <1>0, <2>1 DEF SequenceRow, Rows
    <3>4. /\ pc' = [pc EXCEPT ![w] = "allocate"] /\ draft' = [draft EXCEPT ![w] = d]
          /\ rowLocks' = [rowLocks EXCEPT ![w] = rowLocks[w] \cup {SequenceRow(k)}]
      BY <1>4, <2>4 DEF LockSequence, Goto, Hold
    <3>5. pc'[w] = "allocate" /\ call'[w] = call[w] /\ draft'[w] = d
      BY <2>2, <3>4
    <3>6. Ready(w)'
      <4> HIDE DEF d
      <4> QED BY <2>1, <3>2, <3>5 DEF Ready, Creating, Changing, Numbered
    <3> HIDE DEF d
    <3> QED BY <1>0, <2>2, <3>2, <3>3, <3>4, <3>6, LocalTyped DEF Steps
  <2> QED BY <2>3, <2>4
<1>5. CASE CreateSequence(w)
  <2>1. pc[w] = "create_sequence" /\ k \in Series /\ call[w] \in CreateCalls
    BY <1>2, <1>5 DEF CreateSequence
  <2>2. CASE nextValue[k] # None
    BY <1>5, <2>2, RefuseTyped DEF CreateSequence, Answers
  <2>3. CASE nextValue[k] = None
    <3> DEFINE d == [draft[w] EXCEPT !.number = 1]
    <3>1. /\ UNCHANGED rows /\ imported' = imported /\ changes' = changes /\ call' = call
          /\ answer' = answer
      BY <1>5, <2>3 DEF CreateSequence, around
    <3>2. d \in Draft /\ d.number # 0
      BY <1>0 DEF Draft
    <3>3. rowLocks[w] \cup {SequenceRow(k)} \in SUBSET Rows
      BY <1>0, <2>1 DEF SequenceRow, Rows
    <3>4. /\ pc' = [pc EXCEPT ![w] = "allocate"] /\ draft' = [draft EXCEPT ![w] = d]
          /\ rowLocks' = [rowLocks EXCEPT ![w] = rowLocks[w] \cup {SequenceRow(k)}]
      BY <1>5, <2>3 DEF CreateSequence, Goto, Hold
    <3>5. pc'[w] = "allocate" /\ call'[w] = call[w] /\ draft'[w] = d
      BY <3>1, <3>4
    <3> HIDE DEF d
    <3>6. Ready(w)'
      BY <2>1, <3>2, <3>5 DEF Ready, Creating, Changing, Numbered
    <3> QED BY <1>0, <3>1, <3>2, <3>3, <3>4, <3>6, LocalTyped DEF Steps
  <2> QED BY <2>2, <2>3
<1>6. CASE Allocate(w)
  <2>1. pc[w] = "allocate" /\ k \in Series /\ call[w] \in CreateCalls /\ draft[w].number # 0
    BY <1>0, <1>2, <1>6 DEF Allocate, Ready
  <2> DEFINE left == Vacant(k, draft[w].number)
  <2>2. CASE left = {}
    BY <1>6, <2>2, RefuseTyped DEF Allocate, Answers
  <2>3. CASE left # {}
    <3>1. PICK n \in left : draft' = [draft EXCEPT ![w].number = n]
      BY <1>6, <2>3 DEF Allocate
    <3>2. n \in 1..Limit(k) /\ n \in Nat
      <4>1. n \in draft[w].number..Limit(k)
        BY <3>1 DEF Vacant
      <4>2. draft[w].number \in Nat \ {0} /\ Limit(k) \in Nat
        BY <1>0, <2>1, ReferenceParts
      <4> QED BY <4>1, <4>2
    <3> DEFINE d == [draft[w] EXCEPT !.number = n]
    <3>3. d \in Draft /\ d.number = n
      BY <1>0, <3>2 DEF Draft
    <3>4. /\ UNCHANGED rows /\ imported' = imported /\ changes' = changes /\ call' = call
          /\ answer' = answer /\ rowLocks' = rowLocks /\ pc' = [pc EXCEPT ![w] = "insert"]
          /\ draft' = [draft EXCEPT ![w] = d]
      BY <1>6, <2>3, <3>1 DEF Allocate, around, Goto
    <3>5. pc'[w] = "insert" /\ call'[w] = call[w] /\ draft'[w] = d
      BY <3>4
    <3> HIDE DEF d, left
    <3>6. Ready(w)'
      BY <2>1, <3>2, <3>3, <3>5 DEF Ready, Creating, Changing, Numbered, Limit
    <3>7. rowLocks' = [rowLocks EXCEPT ![w] = rowLocks[w]]
      BY <3>4
    <3> QED BY <1>0, <3>3, <3>4, <3>6, <3>7, LocalTyped DEF Steps
  <2> QED BY <2>2, <2>3
<1>7. CASE Insert(w)
  <2> DEFINE r == <<k, draft[w].number>>
             record == [profile |-> call[w].profile, on |-> TRUE]
             d == [draft[w] EXCEPT !.record = record]
  <2>1. pc[w] = "insert" /\ k \in Series /\ call[w] \in CreateCalls /\ call[w].profile \in Profiles
    BY <1>2, <1>7 DEF Insert
  <2>2. draft[w].number \in 1..Limit(k) /\ r \in References
    BY <1>0, <2>1, ReferenceParts DEF Ready, Numbered
  <2>3. CASE r \in InUse
    BY <1>7, <2>3, RefuseTyped DEF Insert, Answers
  <2>4. CASE r \notin InUse
    <3>1. record \in Record
      BY <2>1 DEF Record
    <3>2. d \in Draft /\ d.record \in Record /\ d.number = draft[w].number
      BY <1>0, <3>1 DEF Draft
    <3>3. rowLocks[w] \cup {RecordRow(r)} \in SUBSET Rows
      BY <1>0, <2>2 DEF RecordRow, Rows
    <3>4. /\ UNCHANGED rows /\ imported' = imported /\ changes' = changes /\ call' = call
          /\ answer' = answer /\ pc' = [pc EXCEPT ![w] = "commit"]
          /\ rowLocks' = [rowLocks EXCEPT ![w] = rowLocks[w] \cup {RecordRow(r)}]
          /\ draft' = [draft EXCEPT ![w] = d]
      BY <1>7, <2>4 DEF Insert, around, Goto, Hold
    <3>5. pc'[w] = "commit" /\ call'[w] = call[w] /\ draft'[w] = d
      BY <3>4
    <3> HIDE DEF d, record, r
    <3>6. Ready(w)'
      BY <2>1, <2>2, <3>2, <3>5, CallKinds DEF Ready, Creating, Changing, Numbered, Limit
    <3> QED BY <1>0, <3>2, <3>3, <3>4, <3>6, LocalTyped DEF Steps
  <2> QED BY <2>3, <2>4
<1> QED BY <1>1, <1>3, <1>4, <1>5, <1>6, <1>7

LEMMA ChangeTyped ==
    ASSUME TypeInv, NEW w \in Workers,
           \/ SubmitUpdate(w) \/ SubmitSetActive(w) \/ LockRecord(w) \/ LockOwner(w) \/ Write(w)
    PROVE  TypeInv'
<1> USE DEF TypeInv, TypeOK
<1> DEFINE r == call[w].ref
<1>0. /\ Ready(w)
      /\ draft[w] \in Draft /\ rowLocks[w] \in SUBSET Rows
      /\ call[w] \in Call \cup {None}
  OBVIOUS
<1>1. CASE SubmitUpdate(w)
  <2>1. PICK q \in InUse, p \in Profiles :
            Begin(w, [kind |-> "update", ref |-> q, profile |-> p], "lock_record")
    BY <1>1 DEF SubmitUpdate
  <2>2. [kind |-> "update", ref |-> q, profile |-> p] \in UpdateCalls
    BY <2>1 DEF UpdateCalls, InUse
  <2>3. changes' \in Nat
    BY <1>1 DEF SubmitUpdate, Change
  <2> QED BY <2>1, <2>2, <2>3, BeginTyped
<1>2. CASE SubmitSetActive(w)
  <2>1. PICK q \in InUse, on \in BOOLEAN :
            Begin(w, [kind |-> "set_active", ref |-> q, on |-> on], "lock_record")
    BY <1>2 DEF SubmitSetActive
  <2>2. [kind |-> "set_active", ref |-> q, on |-> on] \in SwitchCalls
    BY <2>1 DEF SwitchCalls, InUse
  <2>3. changes' \in Nat
    BY <1>2 DEF SubmitSetActive, Change
  <2> QED BY <2>1, <2>2, <2>3, BeginTyped
<1>3. ASSUME pc[w] \in {"lock_record", "lock_owner", "write"}
      PROVE  /\ call[w] \in UpdateCalls \cup SwitchCalls
             /\ r \in InUse /\ r \in References /\ records[r] \in Record
             /\ r[1] \in Series
  BY <1>0, <1>3, ReferenceParts DEF Ready, Changing, InUse
<1>4. CASE LockRecord(w)
  <2> DEFINE d == [draft[w] EXCEPT !.record = records[r]]
             step == NextAfterRecord(r)
  <2>1. pc[w] = "lock_record"
    BY <1>4 DEF LockRecord
  <2>2. d \in Draft /\ d.record \in Record
    BY <1>0, <1>3, <2>1 DEF Draft
  <2>3. rowLocks[w] \cup {RecordRow(r)} \in SUBSET Rows
    BY <1>0, <1>3, <2>1 DEF RecordRow, Rows
  <2>4. /\ UNCHANGED rows /\ imported' = imported /\ changes' = changes /\ call' = call
        /\ answer' = answer /\ pc' = [pc EXCEPT ![w] = step]
        /\ rowLocks' = [rowLocks EXCEPT ![w] = rowLocks[w] \cup {RecordRow(r)}]
        /\ draft' = [draft EXCEPT ![w] = d]
    BY <1>4 DEF LockRecord, around, Goto, Hold
  <2>5. step \in {"write", "lock_owner"} /\ (step = "lock_owner" => r[1] # 0)
    BY DEF NextAfterRecord
  <2>6. pc'[w] = step /\ call'[w] = call[w] /\ draft'[w] = d /\ InUse' = InUse
    BY <2>4 DEF InUse, rows
  <2> HIDE DEF d, step
  <2>7. Ready(w)'
    BY <1>3, <2>1, <2>2, <2>5, <2>6 DEF Ready, Creating, Changing, Numbered
  <2>8. step \in Steps
    BY <2>5 DEF Steps
  <2> QED BY <1>0, <2>2, <2>3, <2>4, <2>7, <2>8, LocalTyped
<1>5. CASE LockOwner(w)
  <2> DEFINE row == RecordRow(<<0, r[1]>>)
  <2>1. pc[w] = "lock_owner" /\ r[1] \in Series \ {0} /\ draft[w].record \in Record
    BY <1>0, <1>3, <1>5 DEF LockOwner, Ready
  <2>2. rowLocks[w] \cup {row} \in SUBSET Rows
    BY <1>0, <2>1, ReferenceParts DEF RecordRow, Rows
  <2>3. /\ UNCHANGED rows /\ imported' = imported /\ changes' = changes /\ call' = call
        /\ answer' = answer /\ pc' = [pc EXCEPT ![w] = "write"]
        /\ rowLocks' = [rowLocks EXCEPT ![w] = rowLocks[w] \cup {row}]
        /\ draft' = draft
    BY <1>5 DEF LockOwner, around, Goto, Hold
  <2>4. pc'[w] = "write" /\ call'[w] = call[w] /\ draft'[w] = draft[w] /\ InUse' = InUse
    BY <2>3 DEF InUse, rows
  <2> HIDE DEF row
  <2>5. Ready(w)'
    BY <1>3, <2>1, <2>4 DEF Ready, Creating, Changing, Numbered
  <2>6. draft' = [draft EXCEPT ![w] = draft[w]]
    BY <2>3
  <2> QED BY <1>0, <2>2, <2>3, <2>5, <2>6, LocalTyped DEF Steps
<1>6. CASE Write(w)
  <2> DEFINE asked == Asked(draft[w].record, call[w])
             d == [draft[w] EXCEPT !.record = asked]
  <2>1. pc[w] = "write" /\ draft[w].record \in Record
    BY <1>0, <1>6 DEF Write, Ready
  <2>2. CASE call[w].kind = "set_active" /\ draft[w].record.on = call[w].on
    BY <1>6, <2>2, RefuseTyped DEF Write, Answers
  <2>3. CASE ~(call[w].kind = "set_active" /\ draft[w].record.on = call[w].on)
    <3>1. asked \in Record
      BY <1>3, <2>1, AskedRecord
    <3>2. d \in Draft /\ d.record \in Record
      <4> HIDE DEF asked
      <4> QED BY <1>0, <3>1 DEF Draft
    <3>3. /\ UNCHANGED rows /\ imported' = imported /\ changes' = changes /\ call' = call
          /\ answer' = answer /\ pc' = [pc EXCEPT ![w] = "commit"]
          /\ rowLocks' = rowLocks /\ draft' = [draft EXCEPT ![w] = d]
      BY <1>6, <2>3 DEF Write, around, Goto
    <3>4. pc'[w] = "commit" /\ call'[w] = call[w] /\ draft'[w] = d /\ InUse' = InUse
      BY <3>3 DEF InUse, rows
    <3> HIDE DEF d
    <3>5. Ready(w)'
      BY <1>3, <2>1, <3>2, <3>4, CallKinds DEF Ready, Creating, Changing, Numbered
    <3>6. rowLocks' = [rowLocks EXCEPT ![w] = rowLocks[w]]
      BY <3>3
    <3> QED BY <1>0, <3>2, <3>3, <3>5, <3>6, LocalTyped DEF Steps
  <2> QED BY <2>2, <2>3
<1> QED BY <1>1, <1>2, <1>4, <1>5, <1>6

LEMMA EndTyped ==
    ASSUME TypeInv, NEW w \in Workers, Commit(w) \/ Respond(w) \/ Crash(w)
    PROVE  TypeInv'
<1>1. CASE Commit(w)
  <2>1. pc[w] = "commit" /\ Target(w) \in References /\ Saved(w) \in Record
    BY <1>1, Committed DEF Commit
  <2>2. records' \in [References -> Record \cup {None}]
    BY <1>1, <2>1 DEF Commit, TypeInv, TypeOK
  <2>3. call[w].kind = "create" => draft[w].number + 1 \in Nat \ {0} /\ call[w].series \in Series
    BY <2>1, Committed, ReferenceParts
  <2>4. nextValue' \in [Series -> Nat \cup {None}] /\ \A k \in Series : nextValue'[k] # 0
    BY <1>1, <2>3 DEF Commit, TypeInv, TypeOK
  <2>5. InUse \subseteq InUse'
    BY <1>1, InUseGrows
  <2> QED BY <1>1, <2>2, <2>4, <2>5, FinishTyped DEF Commit, Answers
<1>2. CASE Respond(w) \/ Crash(w)
  <2> DEFINE held == IF Crash(w) THEN {} ELSE rowLocks[w]
             d == IF Crash(w) THEN NoDraft ELSE draft[w]
  <2>1. held \in SUBSET Rows /\ d \in Draft
    BY DEF TypeInv, TypeOK, NoDraft, Draft
  <2>2. /\ UNCHANGED rows /\ imported' = imported /\ changes' = changes
        /\ pc' = [pc EXCEPT ![w] = "idle"] /\ call' = [call EXCEPT ![w] = None]
    BY <1>2 DEF Respond, Crash, around, Goto
  <2>3. rowLocks' = [rowLocks EXCEPT ![w] = held] /\ draft' = [draft EXCEPT ![w] = d]
    BY <1>2 DEF Respond, Crash, TypeInv, TypeOK
  <2>4. answer' \in [Workers -> Answers \cup {None}]
    BY <1>2 DEF Respond, Crash, TypeInv, TypeOK
  <2>5. pc'[w] = "idle" /\ changes' \in Nat
    BY <2>2 DEF TypeInv, TypeOK
  <2>6. Ready(w)'
    BY <2>5 DEF Ready, Creating, Changing, Numbered
  <2> HIDE DEF held, d
  <2> QED BY <2>1, <2>2, <2>3, <2>4, <2>5, <2>6, LocalTyped DEF Steps
<1> QED BY <1>1, <1>2

LEMMA InitTyped == Init => TypeInv
<1> SUFFICES ASSUME Init PROVE TypeInv
  OBVIOUS
<1>1. PICK p \in NewProfiles :
        records = [r \in References |->
                     IF r \in imported THEN [profile |-> p, on |-> TRUE] ELSE None]
  BY DEF Init
<1>2. records \in [References -> Record \cup {None}]
  BY <1>1, RegistryAssumption DEF Record
<1>3. imported \subseteq References
  BY RegistryAssumption DEF Init
<1>4. nextValue \in [Series -> Nat \cup {None}] /\ \A k \in Series : nextValue[k] # 0
  BY NoneNoRecord DEF Init
<1>5. NoDraft \in Draft
  BY DEF NoDraft, Draft
<1>6. TypeOK
  BY <1>2, <1>3, <1>4, <1>5 DEF Init, TypeOK, Steps
<1>7. ASSUME NEW w \in Workers PROVE Ready(w)
  <2>1. pc[w] = "idle"
    BY DEF Init
  <2> QED BY <2>1 DEF Ready, Creating, Changing, Numbered
<1> QED BY <1>4, <1>6, <1>7 DEF TypeInv

LEMMA StutterTyped ==
    ASSUME TypeInv, UNCHANGED vars
    PROVE  TypeInv'
<1>1. /\ records' = records /\ nextValue' = nextValue /\ imported' = imported
      /\ changes' = changes /\ pc' = pc /\ call' = call /\ rowLocks' = rowLocks
      /\ draft' = draft /\ answer' = answer
  BY DEF vars, rows, around
<1>2. ASSUME NEW w \in Workers PROVE Ready(w)'
  BY <1>1 DEF TypeInv, Ready, Creating, Changing, Numbered, InUse
<1> QED BY <1>1, <1>2 DEF TypeInv, TypeOK

LEMMA NextTyped == TypeInv /\ [Next]_vars => TypeInv'
<1> SUFFICES ASSUME TypeInv, [Next]_vars PROVE TypeInv'
  OBVIOUS
<1>1. CASE UNCHANGED vars
  BY <1>1, StutterTyped
<1>2. CASE Next
  BY <1>2, CreateTyped, ChangeTyped, EndTyped DEF Next
<1> QED BY <1>1, <1>2

LEMMA AlwaysTyped == Spec => []TypeInv
BY InitTyped, NextTyped, PTL DEF Spec

(* Every variable keeps the kind of value the code gives it.               *)
THEOREM TypeCorrect == Spec => []TypeOK
<1>1. TypeInv => TypeOK
  BY DEF TypeInv
<1> QED BY <1>1, AlwaysTyped, PTL

-----------------------------------------------------------------------------
(* Row locks.  A row is held by one transaction, and who works on a series *)
(* or a record holds the rows that others need for it.                     *)

Exclusive == \A v, w \in Workers : v # w => rowLocks[v] \cap rowLocks[w] = {}

Holds(w) ==
    /\ (pc[w] \in {"lock_sequence", "create_sequence", "allocate"} \/ Numbered(w))
         /\ call[w].series # 0 => RecordRow(<<0, call[w].series>>) \in rowLocks[w]
    /\ pc[w] = "allocate" \/ Numbered(w) => SequenceRow(call[w].series) \in rowLocks[w]
    /\ Changing(w) => RecordRow(call[w].ref) \in rowLocks[w]

LockInv == Exclusive /\ \A w \in Workers : Holds(w)

CreateStep(w) ==
    \/ SubmitCreate(w) \/ LockSubscriber(w) \/ LockSequence(w) \/ CreateSequence(w)
    \/ Allocate(w) \/ Insert(w)

ChangeStep(w) ==
    SubmitUpdate(w) \/ SubmitSetActive(w) \/ LockRecord(w) \/ LockOwner(w) \/ Write(w)

EndStep(w) == Commit(w) \/ Respond(w) \/ Crash(w)

Step(w) == CreateStep(w) \/ ChangeStep(w) \/ EndStep(w)

(* Nothing of the other workers changes.                                   *)
Alone(w) ==
    \A v \in Workers \ {w} :
        pc'[v] = pc[v] /\ call'[v] = call[v] /\ draft'[v] = draft[v] /\ rowLocks'[v] = rowLocks[v]

LEMMA StepAlone ==
    ASSUME TypeInv, NEW w \in Workers, Step(w)
    PROVE  Alone(w)
<1> USE DEF TypeInv, TypeOK, Alone, Goto, Hold
<1>1. ASSUME NEW how, Finish(w, how) PROVE Alone(w)
  BY <1>1 DEF Finish
<1>2. ASSUME NEW c, NEW step, Begin(w, c, step) PROVE Alone(w)
  BY <1>2 DEF Begin
<1>3. ASSUME SubmitCreate(w) \/ SubmitUpdate(w) \/ SubmitSetActive(w) PROVE Alone(w)
  BY <1>2, <1>3 DEF SubmitCreate, SubmitUpdate, SubmitSetActive
<1>4. ASSUME LockSubscriber(w) \/ LockSequence(w) PROVE Alone(w)
  BY <1>4 DEF LockSubscriber, LockSequence
<1>5. ASSUME CreateSequence(w) PROVE Alone(w)
  BY <1>1, <1>5 DEF CreateSequence, Refuse
<1>6. ASSUME Allocate(w) PROVE Alone(w)
  BY <1>1, <1>6 DEF Allocate, Refuse
<1>7. ASSUME Insert(w) PROVE Alone(w)
  BY <1>1, <1>7 DEF Insert, Refuse
<1>8. ASSUME LockRecord(w) \/ LockOwner(w) PROVE Alone(w)
  BY <1>8 DEF LockRecord, LockOwner
<1>9. ASSUME Write(w) PROVE Alone(w)
  BY <1>1, <1>9 DEF Write, Refuse
<1>10. ASSUME Commit(w) PROVE Alone(w)
  BY <1>1, <1>10 DEF Commit
<1>11. ASSUME Respond(w) \/ Crash(w) PROVE Alone(w)
  BY <1>11 DEF Respond, Crash
<1> QED BY <1>3, <1>4, <1>5, <1>6, <1>7, <1>8, <1>9, <1>10, <1>11
        DEF Step, CreateStep, ChangeStep, EndStep

(* A transaction keeps its rows, takes a free one, or ends.                *)
LEMMA StepLocks ==
    ASSUME TypeInv, NEW w \in Workers, Step(w)
    PROVE  \/ rowLocks'[w] = rowLocks[w]
           \/ rowLocks'[w] = {}
           \/ \E row : Free(row, w) /\ rowLocks'[w] = rowLocks[w] \cup {row}
<1> DEFINE Goal ==
           \/ rowLocks'[w] = rowLocks[w]
           \/ rowLocks'[w] = {}
           \/ \E row : Free(row, w) /\ rowLocks'[w] = rowLocks[w] \cup {row}
<1>1. ASSUME NEW how, Finish(w, how) PROVE Goal
  BY <1>1 DEF Finish, TypeInv, TypeOK
<1>2. ASSUME NEW row, Free(row, w), Hold(w, row) PROVE Goal
  BY <1>2 DEF Hold, TypeInv, TypeOK
<1>3. ASSUME rowLocks' = rowLocks PROVE Goal
  BY <1>3
<1> HIDE DEF Goal
<1>4. ASSUME SubmitCreate(w) \/ SubmitUpdate(w) \/ SubmitSetActive(w) PROVE Goal
  BY <1>3, <1>4 DEF SubmitCreate, SubmitUpdate, SubmitSetActive, Begin
<1>5. ASSUME LockSubscriber(w) \/ LockSequence(w) PROVE Goal
  BY <1>2, <1>3, <1>5 DEF LockSubscriber, LockSequence
<1>6. ASSUME CreateSequence(w) PROVE Goal
  BY <1>1, <1>2, <1>6 DEF CreateSequence, Refuse
<1>7. ASSUME Allocate(w) PROVE Goal
  BY <1>1, <1>3, <1>7 DEF Allocate, Refuse
<1>8. ASSUME Insert(w) PROVE Goal
  BY <1>1, <1>2, <1>8 DEF Insert, Refuse
<1>9. ASSUME LockRecord(w) \/ LockOwner(w) PROVE Goal
  BY <1>2, <1>9 DEF LockRecord, LockOwner
<1>10. ASSUME Write(w) PROVE Goal
  BY <1>1, <1>3, <1>10 DEF Write, Refuse
<1>11. ASSUME Commit(w) PROVE Goal
  BY <1>1, <1>11 DEF Commit
<1>12. ASSUME Respond(w) PROVE Goal
  BY <1>3, <1>12 DEF Respond
<1>13. ASSUME Crash(w) PROVE Goal
  BY <1>13 DEF Crash, Goal, TypeInv, TypeOK
<1> QED BY <1>4, <1>5, <1>6, <1>7, <1>8, <1>9, <1>10, <1>11, <1>12, <1>13
        DEF Step, CreateStep, ChangeStep, EndStep, Goal

LEMMA StepExclusive ==
    ASSUME TypeInv, Exclusive, NEW w \in Workers, Step(w)
    PROVE  Exclusive'
<1>1. \A v \in Workers \ {w} : rowLocks'[v] = rowLocks[v]
  BY StepAlone DEF Alone
<1>2. ASSUME NEW v \in Workers \ {w} PROVE rowLocks'[v] \cap rowLocks'[w] = {}
  BY <1>1, StepLocks DEF Exclusive, Free
<1> QED BY <1>1, <1>2 DEF Exclusive

(* A worker that is done, or has not begun, holds nothing it would need.   *)
LEMMA RestHolds ==
    ASSUME NEW w, pc[w] \in {"idle", "done", "lock_subscriber", "lock_record"}
    PROVE  Holds(w)
BY DEF Holds, Numbered, Changing

LEMMA FinishRests ==
    ASSUME TypeInv, NEW w \in Workers, NEW how, Finish(w, how)
    PROVE  pc'[w] = "done"
BY DEF Finish, Goto, TypeInv, TypeOK

LEMMA StepHolds ==
    ASSUME TypeInv, NEW w \in Workers, Holds(w), Step(w)
    PROVE  Holds(w)'
<1> DEFINE k == call[w].series
           r == call[w].ref
<1>0. pc \in [Workers -> Steps] /\ call \in [Workers -> Call \cup {None}]
      /\ rowLocks \in [Workers -> SUBSET Rows] /\ Ready(w)
  BY DEF TypeInv, TypeOK
<1>1. ASSUME pc'[w] \in {"idle", "done", "lock_subscriber", "lock_record"} PROVE Holds(w)'
  BY <1>1, RestHolds DEF Holds, Numbered, Changing
<1>2. ASSUME NEW how, Finish(w, how) PROVE Holds(w)'
  BY <1>1, <1>2, FinishRests
<1>3. CASE SubmitCreate(w)
  <2>1. PICK j \in Series, p \in NewProfiles :
            Begin(w, [kind |-> "create", series |-> j, profile |-> p],
                  IF j = 0 THEN "lock_sequence" ELSE "lock_subscriber")
    BY <1>3 DEF SubmitCreate
  <2>2. /\ call'[w].series = j
        /\ pc'[w] = IF j = 0 THEN "lock_sequence" ELSE "lock_subscriber"
    BY <1>0, <2>1 DEF Begin, Goto
  <2> QED BY <2>2 DEF Holds, Numbered, Changing
<1>4. CASE SubmitUpdate(w) \/ SubmitSetActive(w)
  <2>1. pc'[w] = "lock_record"
    BY <1>0, <1>4 DEF SubmitUpdate, SubmitSetActive, Begin, Goto
  <2> QED BY <1>1, <2>1
<1>5. CASE LockSubscriber(w)
  <2>1. /\ pc'[w] = "lock_sequence" /\ call'[w] = call[w]
        /\ rowLocks'[w] = rowLocks[w] \cup {RecordRow(<<0, k>>)}
    BY <1>0, <1>5 DEF LockSubscriber, Goto, Hold
  <2> QED BY <2>1 DEF Holds, Numbered, Changing
<1>6. CASE LockSequence(w)
  <2>1. /\ pc[w] = "lock_sequence" /\ call'[w] = call[w]
        /\ \/ pc'[w] = "create_sequence" /\ rowLocks'[w] = rowLocks[w]
           \/ pc'[w] = "allocate" /\ rowLocks'[w] = rowLocks[w] \cup {SequenceRow(k)}
    BY <1>0, <1>6 DEF LockSequence, Goto, Hold
  <2> QED BY <2>1 DEF Holds, Numbered, Changing
<1>7. CASE CreateSequence(w)
  <2>1. CASE nextValue[k] # None
    BY <1>2, <1>7, <2>1 DEF CreateSequence, Refuse
  <2>2. CASE nextValue[k] = None
    <3>1. /\ pc[w] = "create_sequence" /\ pc'[w] = "allocate" /\ call'[w] = call[w]
          /\ rowLocks'[w] = rowLocks[w] \cup {SequenceRow(k)}
      BY <1>0, <1>7, <2>2 DEF CreateSequence, Goto, Hold
    <3> QED BY <3>1 DEF Holds, Numbered, Changing
  <2> QED BY <2>1, <2>2
<1>8. CASE Allocate(w)
  <2>1. CASE Vacant(k, draft[w].number) = {}
    BY <1>2, <1>8, <2>1 DEF Allocate, Refuse
  <2>2. CASE Vacant(k, draft[w].number) # {}
    <3>1. /\ pc[w] = "allocate" /\ pc'[w] = "insert" /\ call'[w] = call[w]
          /\ rowLocks'[w] = rowLocks[w]
      BY <1>0, <1>8, <2>2 DEF Allocate, Goto
    <3> QED BY <3>1 DEF Holds, Numbered, Changing
  <2> QED BY <2>1, <2>2
<1>9. CASE Insert(w)
  <2>1. CASE <<k, draft[w].number>> \in InUse
    BY <1>2, <1>9, <2>1 DEF Insert, Refuse
  <2>2. CASE <<k, draft[w].number>> \notin InUse
    <3>1. /\ pc[w] = "insert" /\ pc'[w] = "commit" /\ call'[w] = call[w]
          /\ rowLocks[w] \subseteq rowLocks'[w]
      BY <1>0, <1>9, <2>2 DEF Insert, Goto, Hold
    <3>2. call[w].kind = "create"
      BY <1>0, <3>1, CallKinds DEF Ready, Creating
    <3> QED BY <3>1, <3>2 DEF Holds, Numbered, Changing
  <2> QED BY <2>1, <2>2
<1>10. CASE LockRecord(w)
  <2>1. /\ pc'[w] \in {"write", "lock_owner"} /\ call'[w] = call[w]
        /\ rowLocks'[w] = rowLocks[w] \cup {RecordRow(r)}
    BY <1>0, <1>10 DEF LockRecord, Goto, Hold, NextAfterRecord
  <2> QED BY <2>1 DEF Holds, Numbered, Changing
<1>11. CASE LockOwner(w)
  <2>1. /\ pc[w] = "lock_owner" /\ pc'[w] = "write" /\ call'[w] = call[w]
        /\ rowLocks[w] \subseteq rowLocks'[w]
    BY <1>0, <1>11 DEF LockOwner, Goto, Hold
  <2> QED BY <2>1 DEF Holds, Numbered, Changing
<1>12. CASE Write(w)
  <2>1. CASE call[w].kind = "set_active" /\ draft[w].record.on = call[w].on
    BY <1>2, <1>12, <2>1 DEF Write, Refuse
  <2>2. CASE ~(call[w].kind = "set_active" /\ draft[w].record.on = call[w].on)
    <3>1. /\ pc[w] = "write" /\ pc'[w] = "commit" /\ call'[w] = call[w]
          /\ rowLocks'[w] = rowLocks[w]
      BY <1>0, <1>12, <2>2 DEF Write, Goto
    <3>2. call[w].kind # "create"
      BY <1>0, <3>1, CallKinds DEF Ready, Changing
    <3> QED BY <3>1, <3>2 DEF Holds, Numbered, Changing
  <2> QED BY <2>1, <2>2
<1>13. CASE Commit(w)
  BY <1>2, <1>13 DEF Commit
<1>14. CASE Respond(w) \/ Crash(w)
  <2>1. pc'[w] = "idle"
    BY <1>0, <1>14 DEF Respond, Crash, Goto
  <2> QED BY <1>1, <2>1
<1> QED BY <1>3, <1>4, <1>5, <1>6, <1>7, <1>8, <1>9, <1>10, <1>11, <1>12, <1>13, <1>14
        DEF Step, CreateStep, ChangeStep, EndStep

LEMMA StepLockInv ==
    ASSUME TypeInv, LockInv, NEW w \in Workers, Step(w)
    PROVE  LockInv'
<1>1. ASSUME NEW v \in Workers \ {w} PROVE Holds(v)'
  BY StepAlone DEF Alone, LockInv, Holds, Numbered, Changing
<1>2. Holds(w)'
  BY StepHolds DEF LockInv
<1> QED BY <1>1, <1>2, StepExclusive DEF LockInv

-----------------------------------------------------------------------------
(* What a worker read under its locks is still so.                         *)

Shown(k) == IF nextValue[k] = None THEN 1 ELSE nextValue[k]

(* n is the number that series k has to hand out, from a worker's reading. *)
NextOf(k, n) ==
    /\ n >= Shown(k)
    /\ <<k, n>> \notin InUse
    /\ \A m \in Shown(k)..(n - 1) : <<k, m>> \in InUse

Known(w) ==
    /\ pc[w] = "create_sequence" => nextValue[call[w].series] = None
    /\ pc[w] = "allocate" => draft[w].number = Shown(call[w].series)
    /\ Numbered(w) => NextOf(call[w].series, draft[w].number)
    /\ pc[w] \in {"lock_owner", "write"} => draft[w].record = records[call[w].ref]
    /\ pc[w] = "commit" /\ call[w].kind = "update" =>
         draft[w].record = [records[call[w].ref] EXCEPT !.profile = call[w].profile]
    /\ pc[w] = "commit" /\ call[w].kind = "set_active" =>
         draft[w].record.on = call[w].on /\ records[call[w].ref].on # call[w].on

(* The account sequence exists from the start.                             *)
KnownInv ==
    /\ nextValue[0] # None
    /\ \A w \in Workers : Known(w)

Inv == TypeInv /\ LockInv /\ KnownInv

LEMMA ShownIsNumber ==
    ASSUME TypeInv, NEW k \in Series
    PROVE  Shown(k) \in Nat \ {0}
BY NoneNoRecord DEF Shown, TypeInv, TypeOK

(* A series or a record is the business of one worker at a time.           *)
LEMMA OneInSeries ==
    ASSUME TypeInv, LockInv, KnownInv, NEW v \in Workers, NEW w \in Workers, v # w,
           pc[w] = "commit", call[w].kind = "create",
           pc[v] \in {"create_sequence", "allocate"} \/ Numbered(v)
    PROVE  call[v].series # call[w].series
<1> SUFFICES ASSUME call[v].series = call[w].series PROVE FALSE
  OBVIOUS
<1>1. rowLocks[v] \cap rowLocks[w] = {}
  BY DEF LockInv, Exclusive
<1>2. Numbered(w) /\ Holds(v) /\ Holds(w)
  BY DEF Numbered, LockInv
<1>3. CASE pc[v] = "create_sequence"
  <2>1. call[v].series # 0
    BY <1>3 DEF KnownInv, Known
  <2> QED BY <1>1, <1>2, <1>3, <2>1 DEF Holds
<1>4. CASE pc[v] = "allocate" \/ Numbered(v)
  BY <1>1, <1>2, <1>4 DEF Holds
<1> QED BY <1>3, <1>4

LEMMA OneOnRecord ==
    ASSUME LockInv, NEW v \in Workers, NEW w \in Workers, v # w, Changing(v), Changing(w)
    PROVE  call[v].ref # call[w].ref
<1>1. rowLocks[v] \cap rowLocks[w] = {}
  BY DEF LockInv, Exclusive
<1>2. RecordRow(call[v].ref) \in rowLocks[v] /\ RecordRow(call[w].ref) \in rowLocks[w]
  BY DEF LockInv, Holds
<1> QED BY <1>1, <1>2

LEMMA OthersKnow ==
    ASSUME Inv, NEW w \in Workers, NEW v \in Workers, v # w, Commit(w),
           pc'[v] = pc[v], call'[v] = call[v], draft'[v] = draft[v]
    PROVE  Known(v)'
<1> DEFINE k == call[w].series
           n == draft[w].number
           j == call[v].series
           r == call[v].ref
<1>0. /\ Known(v) /\ Known(w) /\ Ready(v) /\ pc[w] = "commit" /\ TypeInv
      /\ records \in [References -> Record \cup {None}]
      /\ nextValue \in [Series -> Nat \cup {None}]
      /\ records' = [records EXCEPT ![Target(w)] = Saved(w)]
      /\ InUse' = InUse \cup {Target(w)}
  BY InUseGrows DEF Inv, KnownInv, TypeInv, TypeOK, Commit
<1>1. pc[v] \in {"create_sequence", "allocate"} \/ Numbered(v) => call[v] \in CreateCalls /\ j \in Series
  BY <1>0, CallKinds DEF Ready, Creating, Numbered
<1>2. Changing(v) => r \in InUse /\ r \in References
  BY <1>0 DEF Ready, InUse
<1>3. Changing(v) => records'[r] = records[r]
  <2> SUFFICES ASSUME Changing(v) PROVE records'[r] = records[r]
    OBVIOUS
  <2>1. CASE call[w].kind = "create"
    <3>1. Target(w) \notin InUse
      BY <1>0, <2>1 DEF Known, Numbered, NextOf, Target
    <3> QED BY <1>0, <1>2, <3>1
  <2>2. CASE call[w].kind # "create"
    <3>1. Target(w) # r
      BY <1>0, <2>2, OneOnRecord DEF Target, Changing, Inv
    <3> QED BY <1>0, <1>2, <3>1
  <2> QED BY <2>1, <2>2
<1>4. ASSUME pc[v] \in {"create_sequence", "allocate"} \/ Numbered(v)
      PROVE  /\ nextValue'[j] = nextValue[j]
             /\ \A m : <<j, m>> \in InUse' <=> <<j, m>> \in InUse
  <2>1. CASE call[w].kind = "create"
    <3>1. j # k
      BY <1>0, <1>4, <2>1, OneInSeries DEF Inv
    <3>2. Target(w) = <<k, n>> /\ nextValue' = [nextValue EXCEPT ![k] = n + 1]
      BY <2>1 DEF Target, Commit
    <3> QED BY <1>0, <1>1, <1>4, <3>1, <3>2
  <2>2. CASE call[w].kind # "create"
    <3>1. InUse' = InUse
      BY <1>0, <2>2, Committed
    <3>2. nextValue' = nextValue
      BY <2>2 DEF Commit
    <3> QED BY <3>1, <3>2
  <2> QED BY <2>1, <2>2
<1>5. ASSUME pc[v] \in {"create_sequence", "allocate"} \/ Numbered(v)
      PROVE  Shown(j)' = Shown(j) /\ (NextOf(j, draft[v].number) => NextOf(j, draft[v].number)')
  <2>1. Shown(j)' = Shown(j)
    BY <1>4, <1>5 DEF Shown
  <2> QED BY <1>4, <1>5, <2>1 DEF NextOf
<1>6. /\ pc[v] = "create_sequence" => nextValue'[j] = None
      /\ pc[v] = "allocate" => draft[v].number = Shown(j)'
      /\ Numbered(v) => NextOf(j, draft[v].number)'
  BY <1>0, <1>4, <1>5 DEF Known
<1>7. /\ pc[v] \in {"lock_owner", "write"} => draft[v].record = records'[r]
      /\ pc[v] = "commit" /\ call[v].kind = "update" =>
           draft[v].record = [records'[r] EXCEPT !.profile = call[v].profile]
      /\ pc[v] = "commit" /\ call[v].kind = "set_active" =>
           draft[v].record.on = call[v].on /\ records'[r].on # call[v].on
  BY <1>0, <1>3 DEF Known, Changing
<1> QED BY <1>6, <1>7 DEF Known, Numbered, NextOf, Shown, InUse

LEMMA RestKnows ==
    ASSUME NEW w, pc'[w] \in {"idle", "done", "lock_subscriber", "lock_sequence", "lock_record"}
    PROVE  Known(w)'
BY DEF Known, Numbered, Changing

LEMMA RowsKeepNumbers ==
    ASSUME UNCHANGED rows
    PROVE  /\ InUse' = InUse /\ records' = records /\ nextValue' = nextValue
           /\ \A k : Shown(k)' = Shown(k)
           /\ \A k, n : NextOf(k, n)' <=> NextOf(k, n)
BY DEF rows, InUse, Shown, NextOf

(* The number that the allocator's loop stops at is the next of its series.*)
LEMMA LoopFinds ==
    ASSUME TypeInv, NEW k \in Series, NEW n \in Vacant(k, Shown(k)),
           \A m \in Vacant(k, Shown(k)) : n <= m
    PROVE  NextOf(k, n)
<1>1. Shown(k) \in Nat /\ Limit(k) \in Nat
  BY ShownIsNumber, ReferenceParts
<1>2. n \in Shown(k)..Limit(k) /\ <<k, n>> \notin InUse
  BY DEF Vacant
<1>3. ASSUME NEW m \in Shown(k)..(n - 1), <<k, m>> \notin InUse PROVE FALSE
  <2>1. m \in Shown(k)..Limit(k) /\ m < n
    BY <1>1, <1>2
  <2>2. m \in Vacant(k, Shown(k))
    BY <1>3, <2>1 DEF Vacant
  <2>3. n <= m
    BY <2>2
  <2> QED BY <1>1, <1>2, <2>1, <2>3
<1> QED BY <1>1, <1>2, <1>3 DEF NextOf

LEMMA StepKnows ==
    ASSUME Inv, NEW w \in Workers, Step(w)
    PROVE  Known(w)'
<1> DEFINE k == call[w].series
           r == call[w].ref
<1>0. /\ pc \in [Workers -> Steps] /\ call \in [Workers -> Call \cup {None}]
      /\ draft \in [Workers -> Draft] /\ draft[w] \in Draft
      /\ Ready(w) /\ Known(w) /\ TypeInv
  BY DEF Inv, KnownInv, TypeInv, TypeOK
<1>1. ASSUME NEW how, Finish(w, how) PROVE Known(w)'
  BY <1>0, <1>1, FinishRests, RestKnows
<1>2. CASE SubmitCreate(w) \/ SubmitUpdate(w) \/ SubmitSetActive(w)
  <2>1. pc'[w] \in {"lock_subscriber", "lock_sequence", "lock_record"}
    BY <1>0, <1>2 DEF SubmitCreate, SubmitUpdate, SubmitSetActive, Begin, Goto
  <2> QED BY <2>1, RestKnows
<1>3. CASE LockSubscriber(w)
  <2>1. pc'[w] = "lock_sequence"
    BY <1>0, <1>3 DEF LockSubscriber, Goto
  <2> QED BY <2>1, RestKnows
<1>4. CASE LockSequence(w)
  <2>1. UNCHANGED rows /\ call'[w] = call[w]
    BY <1>4 DEF LockSequence
  <2>2. CASE nextValue[k] = None
    <3>1. pc'[w] = "create_sequence"
      BY <1>0, <1>4, <2>2 DEF LockSequence, Goto
    <3> QED BY <2>1, <2>2, <3>1, RowsKeepNumbers DEF Known, Numbered
  <2>3. CASE nextValue[k] # None
    <3>1. pc'[w] = "allocate" /\ draft'[w].number = nextValue[k]
      BY <1>0, <1>4, <2>3 DEF LockSequence, Goto, Draft
    <3> QED BY <2>1, <2>3, <3>1, RowsKeepNumbers DEF Known, Numbered, Shown
  <2> QED BY <2>2, <2>3
<1>5. CASE CreateSequence(w)
  <2>1. pc[w] = "create_sequence" /\ nextValue[k] = None
    BY <1>0, <1>5 DEF CreateSequence, Known
  <2>2. /\ UNCHANGED rows /\ call'[w] = call[w] /\ pc'[w] = "allocate"
        /\ draft'[w].number = 1
    BY <1>0, <1>5, <2>1 DEF CreateSequence, Goto, Draft
  <2> QED BY <2>1, <2>2, RowsKeepNumbers DEF Known, Numbered, Shown
<1>6. CASE Allocate(w)
  <2>1. pc[w] = "allocate" /\ k \in Series /\ draft[w].number = Shown(k)
    BY <1>0, <1>6, CallKinds DEF Allocate, Known, Ready, Creating
  <2>2. CASE Vacant(k, draft[w].number) = {}
    BY <1>1, <1>6, <2>2 DEF Allocate, Refuse
  <2>3. CASE Vacant(k, draft[w].number) # {}
    <3>1. PICK n \in Vacant(k, Shown(k)) :
              /\ \A m \in Vacant(k, Shown(k)) : n <= m
              /\ draft' = [draft EXCEPT ![w].number = n]
      BY <1>6, <2>1, <2>3 DEF Allocate
    <3>2. NextOf(k, n)
      BY <1>0, <2>1, <3>1, LoopFinds
    <3>3. /\ UNCHANGED rows /\ call'[w] = call[w] /\ pc'[w] = "insert"
          /\ draft'[w].number = n
      BY <1>0, <1>6, <2>3, <3>1 DEF Allocate, Goto, Draft
    <3> QED BY <3>2, <3>3, RowsKeepNumbers DEF Known, Numbered
  <2> QED BY <2>2, <2>3
<1>7. CASE Insert(w)
  <2>1. /\ pc[w] = "insert" /\ NextOf(k, draft[w].number) /\ call[w].kind = "create"
        /\ <<k, draft[w].number>> \notin InUse
    BY <1>0, <1>7, CallKinds DEF Insert, Known, Numbered, NextOf, Ready, Creating
  <2>2. /\ UNCHANGED rows /\ call'[w] = call[w] /\ pc'[w] = "commit"
        /\ draft'[w].number = draft[w].number
    BY <1>0, <1>7, <2>1 DEF Insert, Goto, Draft
  <2> QED BY <2>1, <2>2, RowsKeepNumbers DEF Known, Numbered
<1>8. CASE LockRecord(w)
  <2>1. /\ UNCHANGED rows /\ call'[w] = call[w] /\ pc'[w] \in {"lock_owner", "write"}
        /\ draft'[w].record = records[r]
    BY <1>0, <1>8 DEF LockRecord, Goto, NextAfterRecord, Draft
  <2> QED BY <2>1, RowsKeepNumbers DEF Known, Numbered
<1>9. CASE LockOwner(w)
  <2>1. /\ UNCHANGED rows /\ call'[w] = call[w] /\ pc'[w] = "write" /\ pc[w] = "lock_owner"
        /\ draft'[w].record = draft[w].record
    BY <1>0, <1>9 DEF LockOwner, Goto
  <2> QED BY <1>0, <2>1, RowsKeepNumbers DEF Known, Numbered
<1>10. CASE Write(w)
  <2>1. /\ pc[w] = "write" /\ draft[w].record = records[r] /\ draft[w].record \in Record
        /\ call[w] \in UpdateCalls \cup SwitchCalls
    BY <1>0, <1>10 DEF Write, Known, Ready, Changing
  <2>2. CASE call[w].kind = "set_active" /\ draft[w].record.on = call[w].on
    BY <1>1, <1>10, <2>2 DEF Write, Refuse
  <2>3. CASE ~(call[w].kind = "set_active" /\ draft[w].record.on = call[w].on)
    <3>1. /\ UNCHANGED rows /\ call'[w] = call[w] /\ pc'[w] = "commit"
          /\ draft'[w].record = Asked(records[r], call[w])
      BY <1>0, <1>10, <2>1, <2>3 DEF Write, Goto, Draft
    <3>2. CASE call[w].kind = "update"
      <4>1. draft'[w].record = [records[r] EXCEPT !.profile = call[w].profile]
        BY <3>1, <3>2 DEF Asked
      <4> QED BY <3>1, <3>2, <4>1, RowsKeepNumbers DEF Known, Numbered
    <3>3. CASE call[w].kind = "set_active"
      <4>1. draft'[w].record.on = call[w].on
        BY <2>1, <3>1, <3>3 DEF Asked, Record
      <4> QED BY <2>1, <2>3, <3>1, <3>3, <4>1, RowsKeepNumbers DEF Known, Numbered
    <3> QED BY <2>1, <3>2, <3>3, CallKinds
  <2> QED BY <2>2, <2>3
<1>11. CASE Commit(w)
  BY <1>1, <1>11 DEF Commit
<1>12. CASE Respond(w) \/ Crash(w)
  <2>1. pc'[w] = "idle"
    BY <1>0, <1>12 DEF Respond, Crash, Goto
  <2> QED BY <2>1, RestKnows
<1> QED BY <1>2, <1>3, <1>4, <1>5, <1>6, <1>7, <1>8, <1>9, <1>10, <1>11, <1>12
        DEF Step, CreateStep, ChangeStep, EndStep

(* Only a commit writes rows.                                              *)
LEMMA OnlyCommitsWrite ==
    ASSUME NEW w \in Workers, Step(w), ~Commit(w)
    PROVE  UNCHANGED rows
BY DEF Step, CreateStep, ChangeStep, EndStep, SubmitCreate, LockSubscriber, LockSequence,
       CreateSequence, Allocate, Insert, SubmitUpdate, SubmitSetActive, LockRecord,
       LockOwner, Write, Respond, Crash, Begin, Refuse

LEMMA StepKnownInv ==
    ASSUME Inv, NEW w \in Workers, Step(w)
    PROVE  KnownInv'
<1>0. TypeInv /\ KnownInv /\ Alone(w)
  BY StepAlone DEF Inv
<1>1. Known(w)'
  BY StepKnows
<1>2. ASSUME NEW v \in Workers \ {w} PROVE Known(v)'
  <2>1. pc'[v] = pc[v] /\ call'[v] = call[v] /\ draft'[v] = draft[v]
    BY <1>0 DEF Alone
  <2>2. CASE Commit(w)
    BY <2>1, <2>2, OthersKnow
  <2>3. CASE ~Commit(w)
    <3>1. UNCHANGED rows
      BY <2>3, OnlyCommitsWrite
    <3> QED BY <1>0, <2>1, <3>1, RowsKeepNumbers DEF KnownInv, Known, Numbered
  <2> QED BY <2>2, <2>3
<1>3. nextValue'[0] # None
  <2>1. CASE Commit(w)
    <3>1. call[w].kind = "create" => draft[w].number + 1 \in Nat /\ call[w].series \in Series
      BY <1>0, <2>1, Committed, ReferenceParts DEF Commit
    <3>2. nextValue \in [Series -> Nat \cup {None}] /\ 0 \in Series
      BY <1>0 DEF TypeInv, TypeOK, Series
    <3> QED BY <1>0, <2>1, <3>1, <3>2, NoneNoRecord DEF Commit, KnownInv
  <2>2. CASE ~Commit(w)
    BY <1>0, <2>2, OnlyCommitsWrite DEF KnownInv, rows
  <2> QED BY <2>1, <2>2
<1> QED BY <1>1, <1>2, <1>3 DEF KnownInv

LEMMA InitInv == Init => Inv
<1> SUFFICES ASSUME Init PROVE Inv
  OBVIOUS
<1>1. \A w \in Workers : pc[w] = "idle" /\ rowLocks[w] = {}
  BY DEF Init
<1>2. \A w \in Workers : Holds(w) /\ Known(w)
  BY <1>1 DEF Holds, Known, Numbered, Changing
<1>3. nextValue[0] # None
  BY NoneNoRecord DEF Init, Series
<1> QED BY <1>1, <1>2, <1>3, InitTyped DEF Inv, LockInv, Exclusive, KnownInv

LEMMA NextInv == Inv /\ [Next]_vars => Inv'
<1> SUFFICES ASSUME Inv, [Next]_vars PROVE Inv'
  OBVIOUS
<1>1. TypeInv'
  BY NextTyped DEF Inv
<1>2. CASE UNCHANGED vars
  <2>1. /\ records' = records /\ nextValue' = nextValue /\ pc' = pc /\ call' = call
        /\ rowLocks' = rowLocks /\ draft' = draft
    BY <1>2 DEF vars, rows, around
  <2>2. \A w \in Workers : Known(w)'
    BY <2>1 DEF Inv, KnownInv, Known, Numbered, NextOf, Shown, InUse
  <2>3. LockInv'
    BY <2>1 DEF Inv, LockInv, Exclusive, Holds, Numbered, Changing
  <2> QED BY <1>1, <2>1, <2>2, <2>3 DEF Inv, KnownInv
<1>3. CASE Next
  <2>1. PICK w \in Workers : Step(w)
    BY <1>3 DEF Next, Step, CreateStep, ChangeStep, EndStep
  <2> QED BY <1>1, <2>1, StepLockInv, StepKnownInv DEF Inv
<1> QED BY <1>2, <1>3

LEMMA AlwaysInv == Spec => []Inv
BY InitInv, NextInv, PTL DEF Spec

-----------------------------------------------------------------------------
(* Numbers.                                                                *)

Exact(k) ==
    /\ \A n \in 1..(Shown(k) - 1) : <<k, n>> \in InUse
    /\ \A n \in Shown(k)..Limit(k) : <<k, n>> \in InUse => <<k, n>> \in imported

LEMMA ExactSeries == SequencesExact <=> \A k \in Series : Exact(k)
BY DEF SequencesExact, Exact, Shown

(* A commit takes the smallest number of its series that is not in use.    *)
LEMMA CommitIssues ==
    ASSUME Inv, SequencesExact, NEW w \in Workers, Commit(w), call[w].kind = "create",
           NEW k, k = call[w].series, NEW n, n = draft[w].number
    PROVE  /\ k \in Series /\ n \in 1..Limit(k) /\ n \in Nat
           /\ <<k, n>> \notin InUse
           /\ \A m \in 1..(n - 1) : <<k, m>> \in InUse
           /\ InUse' = InUse \cup {<<k, n>>}
<1>1. TypeInv /\ pc[w] = "commit" /\ Exact(call[w].series)
  <2>1. call[w].series \in Series
    BY Committed DEF Inv, Commit
  <2> QED BY <2>1, ExactSeries DEF Inv, Commit
<1>2. k \in Series /\ n \in 1..Limit(k) /\ Target(w) = <<k, n>>
  BY <1>1, Committed
<1>3. NextOf(k, n)
  BY <1>1 DEF Inv, KnownInv, Known, Numbered
<1>4. Shown(k) \in Nat \ {0} /\ n \in Nat
  BY <1>1, <1>2, ShownIsNumber, ReferenceParts
<1>5. ASSUME NEW m \in 1..(n - 1) PROVE <<k, m>> \in InUse
  <2>1. m \in 1..(Shown(k) - 1) \/ m \in Shown(k)..(n - 1)
    BY <1>4
  <2> QED BY <1>1, <1>3, <2>1 DEF Exact, NextOf
<1> QED BY <1>1, <1>2, <1>3, <1>4, <1>5, InUseGrows DEF NextOf

LEMMA CommitExact ==
    ASSUME Inv, SequencesExact, NEW w \in Workers, Commit(w), NEW j \in Series
    PROVE  Exact(j)'
<1> DEFINE k == call[w].series
           n == draft[w].number
<1>0. /\ TypeInv /\ nextValue \in [Series -> Nat \cup {None}] /\ Exact(j) /\ pc[w] = "commit"
      /\ imported' = imported
  BY ExactSeries DEF Inv, TypeInv, TypeOK, Commit, Finish, around
<1>1. Limit(j) \in Nat /\ Shown(j) \in Nat
  BY <1>0, ReferenceParts, ShownIsNumber
<1>2. CASE call[w].kind # "create"
  <2>1. InUse' = InUse /\ nextValue' = nextValue
    BY <1>0, <1>2, InUseGrows, Committed DEF Commit
  <2> QED BY <1>0, <2>1 DEF Exact, Shown
<1>3. CASE call[w].kind = "create"
  <2>1. /\ k \in Series /\ n \in 1..Limit(k) /\ n \in Nat
        /\ \A m \in 1..(n - 1) : <<k, m>> \in InUse
        /\ InUse' = InUse \cup {<<k, n>>}
    BY <1>3, CommitIssues
  <2>0. nextValue' = [nextValue EXCEPT ![k] = n + 1]
    BY <1>3 DEF Commit
  <2>2. CASE j # k
    <3>1. nextValue'[j] = nextValue[j]
      BY <1>0, <2>0, <2>1, <2>2
    <3>2. \A m : <<j, m>> \in InUse' <=> <<j, m>> \in InUse
      BY <2>1, <2>2
    <3>3. Shown(j)' = Shown(j)
      BY <3>1 DEF Shown
    <3> QED BY <1>0, <3>2, <3>3 DEF Exact, Limit
  <2>3. CASE j = k
    <3>1. nextValue'[j] = n + 1 /\ n + 1 # None
      BY <1>0, <2>0, <2>1, <2>3, NoneNoRecord
    <3>2. Shown(j)' = n + 1
      BY <3>1 DEF Shown
    <3>3. ASSUME NEW m \in 1..(Shown(j)' - 1) PROVE <<j, m>> \in InUse'
      <4>1. m \in 1..(n - 1) \/ m = n
        BY <2>1, <3>2
      <4> QED BY <2>1, <2>3, <4>1
    <3>4. ASSUME NEW m \in Shown(j)'..Limit(j), <<j, m>> \in InUse' PROVE <<j, m>> \in imported'
      <4>1. m > n /\ m \in Nat
        BY <1>1, <2>1, <3>2
      <4>2. <<j, m>> \in InUse
        BY <2>1, <2>3, <3>4, <4>1
      <4>3. Shown(j) <= n
        BY <1>0, <1>3, <2>3 DEF Inv, KnownInv, Known, Numbered, NextOf
      <4>4. m \in Shown(j)..Limit(j)
        BY <1>1, <2>1, <4>1, <4>3
      <4> QED BY <1>0, <4>2, <4>4 DEF Exact
    <3> QED BY <3>3, <3>4 DEF Exact, Limit
  <2> QED BY <2>2, <2>3
<1> QED BY <1>2, <1>3

LEMMA ImportedKept ==
    ASSUME NEW w \in Workers, Step(w)
    PROVE  imported' = imported
BY DEF Step, CreateStep, ChangeStep, EndStep, SubmitCreate, LockSubscriber, LockSequence,
       CreateSequence, Allocate, Insert, SubmitUpdate, SubmitSetActive, LockRecord,
       LockOwner, Write, Commit, Respond, Crash, Begin, Refuse, Finish, around

LEMMA InitInUse ==
    ASSUME Init
    PROVE  InUse = imported
<1>1. PICK p \in NewProfiles :
        records = [r \in References |->
                     IF r \in imported THEN [profile |-> p, on |-> TRUE] ELSE None]
  BY DEF Init
<1>2. [profile |-> p, on |-> TRUE] # None
  <2>1. [profile |-> p, on |-> TRUE] \in Record
    BY <1>1, RegistryAssumption DEF Record
  <2> QED BY <2>1, NoneNoRecord
<1>3. imported \subseteq References
  BY RegistryAssumption DEF Init
<1> QED BY <1>1, <1>2, <1>3 DEF InUse

(* A sequence is never behind and never ahead of its records, whatever     *)
(* workers died or were refused.                                           *)
THEOREM SequencesAreExact == Spec => []SequencesExact
<1>1. Init => SequencesExact
  <2> SUFFICES ASSUME Init, NEW k \in Series PROVE Exact(k)
    BY ExactSeries
  <2>1. Shown(k) = 1
    BY DEF Init, Shown
  <2> QED BY <2>1, InitInUse DEF Exact
<1>2. Inv /\ SequencesExact /\ [Next]_vars => SequencesExact'
  <2> SUFFICES ASSUME Inv, SequencesExact, [Next]_vars PROVE SequencesExact'
    OBVIOUS
  <2>1. CASE UNCHANGED vars
    BY <2>1 DEF vars, rows, around, SequencesExact, InUse
  <2>2. CASE Next
    <3>1. PICK w \in Workers : Step(w)
      BY <2>2 DEF Next, Step, CreateStep, ChangeStep, EndStep
    <3>2. CASE Commit(w)
      <4>1. \A k \in Series : Exact(k)'
        BY <3>2, CommitExact
      <4> QED BY <4>1 DEF SequencesExact, Exact, Shown
    <3>3. CASE ~Commit(w)
      BY <3>1, <3>3, OnlyCommitsWrite, ImportedKept DEF rows, SequencesExact, InUse
    <3> QED BY <3>2, <3>3
  <2> QED BY <2>1, <2>2
<1> QED BY <1>1, <1>2, AlwaysInv, PTL DEF Spec

(* The records in use are handed out as Numbering promises: each series    *)
(* gives its smallest unused number and takes none back.                   *)
THEOREM RegistryImplementsNumbering == Spec => ImplementsNumbering
<1>1. Init => Numbers!Init
  BY InitInUse DEF Init, Numbers!Init
<1>2. Inv /\ SequencesExact /\ [Next]_vars => [Numbers!Next]_InUse
  <2> SUFFICES ASSUME Inv, SequencesExact, [Next]_vars, InUse' # InUse
               PROVE  Numbers!Next
    OBVIOUS
  <2>1. PICK w \in Workers : Step(w)
    BY DEF Next, Step, CreateStep, ChangeStep, EndStep, vars, rows, InUse
  <2>2. Commit(w)
    BY <2>1, OnlyCommitsWrite DEF rows, InUse
  <2>3. call[w].kind = "create"
    BY <2>2, InUseGrows, Committed DEF Inv, Commit
  <2> DEFINE k == call[w].series
             n == draft[w].number
  <2>4. /\ k \in Series /\ n \in 1..Limit(k) /\ n \in Nat
        /\ <<k, n>> \notin InUse
        /\ \A m \in 1..(n - 1) : <<k, m>> \in InUse
        /\ InUse' = InUse \cup {<<k, n>>}
    BY <2>2, <2>3, CommitIssues
  <2> HIDE DEF k, n
  <2>5. n \in Numbers!Unused(k)
    BY <2>4 DEF Numbers!Unused
  <2>6. ASSUME NEW m \in Numbers!Unused(k) PROVE n <= m
    <3>1. m \in 1..Limit(k) /\ <<k, m>> \notin InUse
      BY DEF Numbers!Unused
    <3>2. m \notin 1..(n - 1) /\ m \in Nat /\ m >= 1
      BY <2>4, <3>1, ReferenceParts
    <3> QED BY <2>4, <3>2
  <2>7. Numbers!Issue(k)
    BY <2>4, <2>5, <2>6 DEF Numbers!Issue
  <2> QED BY <2>4, <2>7 DEF Numbers!Next
<1> QED BY <1>1, <1>2, AlwaysInv, SequencesAreExact, PTL
        DEF Spec, ImplementsNumbering, Numbers!Spec

(* The unique indexes never have to stop a registration.                   *)
THEOREM DuplicatesNeverMet == Spec => []NoDuplicates
<1>1. Init => NoDuplicates
  BY NoneNoRecord DEF Init, NoDuplicates, Answers
<1>2. Inv /\ NoDuplicates /\ [Next]_vars => NoDuplicates'
  <2> SUFFICES ASSUME Inv, NoDuplicates, [Next]_vars PROVE NoDuplicates'
    OBVIOUS
  <2>0. answer \in [Workers -> Answers \cup {None}] /\ None # "duplicate"
    BY NoneNoRecord DEF Inv, TypeInv, TypeOK, Answers
  <2>1. CASE UNCHANGED vars
    BY <2>1 DEF vars, NoDuplicates
  <2>2. CASE Next
    <3>1. PICK w \in Workers : Step(w)
      BY <2>2 DEF Next, Step, CreateStep, ChangeStep, EndStep
    <3>2. Known(w)
      BY DEF Inv, KnownInv
    <3>3. ASSUME NEW how, Finish(w, how), how # "duplicate" PROVE NoDuplicates'
      BY <2>0, <3>3 DEF Finish, NoDuplicates
    <3>4. ASSUME answer' = answer PROVE NoDuplicates'
      BY <3>4 DEF NoDuplicates
    <3>5. CASE CreateSequence(w)
      BY <3>2, <3>4, <3>5 DEF CreateSequence, Known
    <3>6. CASE Insert(w)
      BY <3>2, <3>4, <3>6 DEF Insert, Known, Numbered, NextOf
    <3>7. CASE Allocate(w)
      BY <3>3, <3>4, <3>7 DEF Allocate, Refuse
    <3>8. CASE Write(w)
      BY <3>3, <3>4, <3>8 DEF Write, Refuse
    <3>9. CASE Commit(w)
      BY <3>3, <3>9 DEF Commit
    <3>10. CASE Respond(w)
      BY <2>0, <3>10 DEF Respond, NoDuplicates
    <3>11. CASE SubmitCreate(w) \/ SubmitUpdate(w) \/ SubmitSetActive(w)
      BY <3>4, <3>11 DEF SubmitCreate, SubmitUpdate, SubmitSetActive, Begin
    <3>12. CASE LockSubscriber(w) \/ LockSequence(w) \/ LockRecord(w) \/ LockOwner(w) \/ Crash(w)
      BY <3>4, <3>12 DEF LockSubscriber, LockSequence, LockRecord, LockOwner, Crash
    <3> QED BY <3>1, <3>5, <3>6, <3>7, <3>8, <3>9, <3>10, <3>11, <3>12
            DEF Step, CreateStep, ChangeStep, EndStep
  <2> QED BY <2>1, <2>2
<1> QED BY <1>1, <1>2, AlwaysInv, PTL DEF Spec

(* A subscriber that is told it has all its services has them all.         *)
LEMMA StepFull ==
    ASSUME Inv, SequencesExact, NEW w \in Workers, Step(w), NEW v \in Workers,
           answer[v] = None, answer'[v] = "full", NEW n \in 1..Limit(call[v].series)
    PROVE  <<call[v].series, n>> \in InUse
<1>0. /\ answer \in [Workers -> Answers \cup {None}] /\ None # "full"
      /\ TypeInv /\ Known(w) /\ Ready(w)
  BY NoneNoRecord DEF Inv, TypeInv, TypeOK, Answers, KnownInv
<1>1. ASSUME NEW how, Finish(w, how), how # "full" PROVE FALSE
  BY <1>0, <1>1 DEF Finish
<1>2. ASSUME answer' = answer PROVE FALSE
  BY <1>0, <1>2
<1>3. CASE Allocate(w)
  <2> DEFINE k == call[w].series
  <2>1. /\ pc[w] = "allocate" /\ k \in Series /\ draft[w].number = Shown(k)
    BY <1>0, <1>3, CallKinds DEF Allocate, Known, Ready, Creating
  <2>2. Vacant(k, Shown(k)) = {} /\ v = w
    BY <1>0, <1>2, <1>3, <2>1 DEF Allocate, Refuse, Finish
  <2>3. Exact(k) /\ Shown(k) \in Nat \ {0} /\ Limit(k) \in Nat
    BY <1>0, <2>1, ExactSeries, ShownIsNumber, ReferenceParts
  <2>4. n \in 1..(Shown(k) - 1) \/ n \in Shown(k)..Limit(k)
    BY <2>2, <2>3
  <2> QED BY <2>2, <2>3, <2>4 DEF Exact, Vacant
<1>4. CASE CreateSequence(w)
  BY <1>0, <1>2, <1>4 DEF CreateSequence, Known
<1>5. CASE Insert(w)
  BY <1>0, <1>2, <1>5 DEF Insert, Known, Numbered, NextOf
<1>6. CASE Write(w)
  BY <1>1, <1>2, <1>6 DEF Write, Refuse
<1>7. CASE Commit(w)
  BY <1>1, <1>7 DEF Commit
<1>8. CASE Respond(w)
  BY <1>0, <1>8 DEF Respond
<1>9. CASE SubmitCreate(w) \/ SubmitUpdate(w) \/ SubmitSetActive(w)
  BY <1>2, <1>9 DEF SubmitCreate, SubmitUpdate, SubmitSetActive, Begin
<1>10. CASE LockSubscriber(w) \/ LockSequence(w) \/ LockRecord(w) \/ LockOwner(w) \/ Crash(w)
  BY <1>2, <1>10 DEF LockSubscriber, LockSequence, LockRecord, LockOwner, Crash
<1> QED BY <1>3, <1>4, <1>5, <1>6, <1>7, <1>8, <1>9, <1>10
        DEF Step, CreateStep, ChangeStep, EndStep

(* "A subscriber can have at most 99 services" is only said to one that    *)
(* has them all: rollbacks and imported rows cost no number.               *)
THEOREM FullMeansFull == Spec => FullIsFull
<1> DEFINE A == \A w \in Workers :
                  answer[w] = None /\ answer'[w] = "full"
                    => \A n \in 1..Limit(call[w].series) : <<call[w].series, n>> \in InUse
<1>1. Inv /\ SequencesExact /\ [Next]_vars => [A]_vars
  <2> SUFFICES ASSUME Inv, SequencesExact, Next PROVE A
    OBVIOUS
  <2>1. PICK w \in Workers : Step(w)
    BY DEF Next, Step, CreateStep, ChangeStep, EndStep
  <2> QED BY <2>1, StepFull
<1>2. [][A]_vars => FullIsFull
  BY PTL DEF FullIsFull
<1> HIDE DEF A
<1> QED BY <1>1, <1>2, AlwaysInv, SequencesAreExact, PTL DEF Spec

-----------------------------------------------------------------------------
(* Edits and switches.                                                     *)

LEMMA CommitAsAsked ==
    ASSUME Inv, NEW w \in Workers, Commit(w), NEW r \in InUse, records'[r] # records[r]
    PROVE  AsAsked(r)
<1>0. /\ TypeInv /\ pc[w] = "commit" /\ Known(w) /\ Ready(w)
      /\ records \in [References -> Record \cup {None}]
      /\ records' = [records EXCEPT ![Target(w)] = Saved(w)]
  BY DEF Inv, TypeInv, TypeOK, Commit, KnownInv
<1>1. r = Target(w) /\ r \in References
  BY <1>0 DEF InUse
<1>2. call[w].kind # "create"
  BY <1>0, <1>1 DEF Known, Numbered, NextOf, Target
<1>3. call[w] \in UpdateCalls \cup SwitchCalls /\ r = call[w].ref
  BY <1>0, <1>1, <1>2 DEF Ready, Changing, Target
<1>4. records'[r] = Saved(w)
  BY <1>0, <1>1
<1>5. CASE call[w].kind = "update"
  <2>1. Saved(w) = [records[r] EXCEPT !.profile = call[w].profile]
    BY <1>0, <1>3, <1>5 DEF Saved, Known
  <2> QED BY <1>0, <1>1, <1>4, <1>5, <2>1 DEF AsAsked
<1>6. CASE call[w].kind = "set_active"
  <2>1. Saved(w) = [records[r] EXCEPT !.on = call[w].on]
    BY <1>0, <1>3, <1>6 DEF Saved, Known
  <2> QED BY <1>0, <1>1, <1>4, <1>6, <2>1 DEF AsAsked
<1> QED BY <1>3, <1>5, <1>6, CallKinds

(* No edit undoes a switch, no switch an edit, and nothing else changes a  *)
(* record.                                                                 *)
THEOREM NothingIsUndone == Spec => NothingUndone
<1> DEFINE A == \A r \in InUse : records'[r] # records[r] => AsAsked(r)
<1>1. Inv /\ [Next]_vars => [A]_vars
  <2> SUFFICES ASSUME Inv, Next PROVE A
    OBVIOUS
  <2>1. PICK w \in Workers : Step(w)
    BY DEF Next, Step, CreateStep, ChangeStep, EndStep
  <2>2. CASE Commit(w)
    BY <2>2, CommitAsAsked
  <2>3. CASE ~Commit(w)
    BY <2>1, <2>3, OnlyCommitsWrite DEF rows
  <2> QED BY <2>2, <2>3
<1>2. [][A]_vars => NothingUndone
  BY PTL DEF NothingUndone
<1> HIDE DEF A
<1> QED BY <1>1, <1>2, AlwaysInv, PTL DEF Spec

LEMMA StepSwitches ==
    ASSUME Inv, NEW w \in Workers, Step(w), NEW v \in Workers, call[v] # None,
           call[v].kind = "set_active", answer[v] = None, answer'[v] = "written"
    PROVE  records[call[v].ref].on # call[v].on
<1>0. /\ answer \in [Workers -> Answers \cup {None}] /\ None # "written"
      /\ Known(w) /\ Ready(w)
  BY NoneNoRecord DEF Inv, TypeInv, TypeOK, Answers, KnownInv
<1>1. ASSUME NEW how, Finish(w, how), how # "written" PROVE FALSE
  BY <1>0, <1>1 DEF Finish
<1>2. ASSUME answer' = answer PROVE FALSE
  BY <1>0, <1>2
<1>3. CASE Commit(w)
  <2>1. v = w /\ pc[w] = "commit"
    BY <1>0, <1>3 DEF Commit, Finish
  <2> QED BY <1>0, <2>1 DEF Known
<1>4. CASE CreateSequence(w)
  BY <1>0, <1>2, <1>4 DEF CreateSequence, Known
<1>5. CASE Insert(w)
  BY <1>0, <1>2, <1>5 DEF Insert, Known, Numbered, NextOf
<1>6. CASE Write(w)
  BY <1>1, <1>2, <1>6 DEF Write, Refuse
<1>7. CASE Allocate(w)
  BY <1>1, <1>2, <1>7 DEF Allocate, Refuse
<1>8. CASE Respond(w)
  BY <1>0, <1>8 DEF Respond
<1>9. CASE SubmitCreate(w) \/ SubmitUpdate(w) \/ SubmitSetActive(w)
  BY <1>2, <1>9 DEF SubmitCreate, SubmitUpdate, SubmitSetActive, Begin
<1>10. CASE LockSubscriber(w) \/ LockSequence(w) \/ LockRecord(w) \/ LockOwner(w) \/ Crash(w)
  BY <1>2, <1>10 DEF LockSubscriber, LockSequence, LockRecord, LockOwner, Crash
<1> QED BY <1>3, <1>4, <1>5, <1>6, <1>7, <1>8, <1>9, <1>10
        DEF Step, CreateStep, ChangeStep, EndStep

(* A switch that is reported and audited did happen.                       *)
THEOREM SwitchesAreReal == Spec => SwitchesReal
<1> DEFINE A == \A w \in Workers :
                  call[w] # None /\ call[w].kind = "set_active" /\ answer[w] = None
                      /\ answer'[w] = "written"
                    => records[call[w].ref].on # call[w].on
<1>1. Inv /\ [Next]_vars => [A]_vars
  <2> SUFFICES ASSUME Inv, Next PROVE A
    OBVIOUS
  <2>1. PICK w \in Workers : Step(w)
    BY DEF Next, Step, CreateStep, ChangeStep, EndStep
  <2> QED BY <2>1, StepSwitches
<1>2. [][A]_vars => SwitchesReal
  BY PTL DEF SwitchesReal
<1> HIDE DEF A
<1> QED BY <1>1, <1>2, AlwaysInv, PTL DEF Spec

=============================================================================
