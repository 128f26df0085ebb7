---------------------------- MODULE StoreProofs ----------------------------
(***************************************************************************)
(* The safety of Store for any machines, labels and heartbeats.             *)
(* What save is about to rename is the table in memory (Progress), what     *)
(* memory lacks and the file has was deleted on purpose (NoLoss), and a     *)
(* Mint under way is the only difference a failed save leaves (Undone).     *)
(***************************************************************************)
EXTENDS Store, TLAPS

\* The table a restart would read.
OnDisk == IF file = nil THEN Empty ELSE file

\* What the temporary file and the file hold at each point of save.
Progress ==
    /\ op # nil => up
    /\ At("close") \/ At("rename") => tmp = mem
    /\ At("saved") => file = mem /\ ~unsaved

\* A machine that is in the file and not in memory was deleted.
NoLoss ==
    up => \A m \in Machines : OnDisk[m] # nil /\ mem[m] = nil => m \in condemned

\* A mint under way concerns a machine nobody has seen yet.
Minting ==
    op # nil /\ op.kind = "mint"
       => /\ op.id \notin acked \cup refused \cup condemned
          /\ mem[op.id] # nil
          /\ op.at # "saved" => OnDisk[op.id] = nil

\* Undoing the mint under way gives the table on disk.
Undone ==
    op # nil /\ op.kind = "mint" /\ op.at # "saved" /\ ~unsaved
       => [mem EXCEPT ![op.id] = nil] = OnDisk

\* A save that failed is on record, except a mint's, which is rolled back.
Failed == At("failed") /\ op.kind # "mint" => unsaved

Kept == \A m \in acked \ condemned : OnDisk[m] # nil /\ (up => mem[m] # nil)

Gone == \A m \in refused : OnDisk[m] = nil /\ mem[m] = nil

StoreInv ==
    /\ TypeOK
    /\ FileIsWhole
    /\ Progress
    /\ NoLoss
    /\ Minting
    /\ Undone
    /\ Failed
    /\ Kept
    /\ Gone
    /\ FileIsCurrent

(* The store starts in the invariant. *)
LEMMA StoreInit == Init => StoreInv
BY StoreAssumption DEF Init, StoreInv, TypeOK, FileIsWhole, Progress, NoLoss, Minting,
   Undone, Failed, Kept, Gone, FileIsCurrent, history, Tables, Records, Ops, Empty, Idle, At, OnDisk

(* Every step keeps the types. *)
LEMMA TypePreserved == ASSUME TypeOK, FileIsWhole, Progress, [Next]_vars PROVE TypeOK'
<1> USE StoreAssumption DEF TypeOK, FileIsWhole, Progress, history, Tables, Records, Ops, Empty, Idle, At
<1>1. CASE Open BY <1>1 DEF Open
<1>2. CASE Crash BY <1>2 DEF Crash
<1>3. ASSUME NEW m \in Machines, NEW name \in Labels \cup {blank}, Mint(m, name) PROVE TypeOK'
  BY <1>3 DEF Mint, Begin
<1>4. ASSUME NEW m \in Machines, NEW name \in Labels \cup {blank},
             NEW now \in Times, Touch(m, name, now) PROVE TypeOK'
  <2>1. mem[m] \in Records BY <1>4 DEF Touch
  <2>2. [label |-> IF name = blank THEN mem[m].label ELSE name, seen |-> now] \in Records
    BY <2>1
  <2> QED BY <1>4, <2>2 DEF Touch, Begin
<1>5. ASSUME NEW m \in Machines, Delete(m) PROVE TypeOK'
  BY <1>5 DEF Delete, Begin
<1>6. CASE RemoveTmp BY <1>6 DEF RemoveTmp, Goto
<1>7. CASE CreateTmp BY <1>7 DEF CreateTmp, Goto
<1>8. CASE WriteTmp BY <1>8 DEF WriteTmp, Goto
<1>9. CASE CloseTmp BY <1>9 DEF CloseTmp, Goto
<1>10. CASE RenameTmp BY <1>10 DEF RenameTmp, Goto
<1>11. CASE SaveFails BY <1>11 DEF SaveFails, Goto
<1>12. CASE Return BY <1>12 DEF Return
<1>13. CASE DiskTurns BY <1>13 DEF DiskTurns
<1>14. CASE UNCHANGED vars BY <1>14 DEF vars
<1> QED BY <1>1, <1>2, <1>3, <1>4, <1>5, <1>6, <1>7, <1>8, <1>9, <1>10, <1>11, <1>12, <1>13, <1>14
     DEF Next, SaveStep

(* Every step keeps the invariant. *)
LEMMA StoreStep == ASSUME StoreInv, [Next]_vars PROVE StoreInv'
<1>0. TypeOK' BY TypePreserved DEF StoreInv
<1>a. StoreInv BY DEF StoreInv
<1> USE <1>a, <1>0, StoreAssumption, NilAssumption DEF StoreInv, TypeOK, history, Tables, Ops,
      Empty, Idle, At, OnDisk
<1>1. CASE Open
  <2>1. FileIsWhole' BY <1>1 DEF Open, FileIsWhole
  <2>2. Progress' BY <1>1 DEF Open, Progress
  <2>3. NoLoss' BY <1>1 DEF Open, NoLoss, Progress
  <2>4. Minting' BY <1>1 DEF Open, Minting, NoLoss, Progress
  <2>5. Undone' BY <1>1 DEF Open, Undone, Minting, Progress, FileIsCurrent
  <2>6. Failed' BY <1>1 DEF Open, Failed, Progress
  <2>7. Kept' BY <1>1 DEF Open, Kept, Progress, Minting, Gone
  <2>8. Gone' BY <1>1 DEF Open, Gone, Progress, Minting
  <2>9. FileIsCurrent' BY <1>1 DEF Open, FileIsCurrent, Progress, Undone, Failed
  <2> QED BY <2>1, <2>2, <2>3, <2>4, <2>5, <2>6, <2>7, <2>8, <2>9
<1>2. CASE Crash
  <2>1. FileIsWhole' BY <1>2 DEF Crash, FileIsWhole
  <2>2. Progress' BY <1>2 DEF Crash, Progress
  <2>3. NoLoss' BY <1>2 DEF Crash, NoLoss, Progress
  <2>4. Minting' BY <1>2 DEF Crash, Minting, NoLoss, Progress
  <2>5. Undone' BY <1>2 DEF Crash, Undone, Minting, Progress, FileIsCurrent
  <2>6. Failed' BY <1>2 DEF Crash, Failed, Progress
  <2>7. Kept' BY <1>2 DEF Crash, Kept, Progress, Minting, Gone
  <2>8. Gone' BY <1>2 DEF Crash, Gone, Progress, Minting
  <2>9. FileIsCurrent' BY <1>2 DEF Crash, FileIsCurrent, Progress, Undone, Failed
  <2> QED BY <2>1, <2>2, <2>3, <2>4, <2>5, <2>6, <2>7, <2>8, <2>9
<1>3. ASSUME NEW m \in Machines, NEW name \in Labels \cup {blank}, Mint(m, name) PROVE StoreInv'
  <2>0. op' \in Ops /\ op' # nil
    BY <1>3 DEF Mint, Begin
  <2>1. FileIsWhole' BY <1>3, <2>0 DEF Mint, Begin, FileIsWhole
  <2>2. Progress' BY <1>3, <2>0 DEF Mint, Begin, Progress
  <2>3. NoLoss' BY <1>3, <2>0 DEF Mint, Begin, NoLoss, Progress
  <2>00. [label |-> name, seen |-> never] \in Records
    BY <1>3 DEF Records
  <2>4. Minting' BY <1>3, <2>0, <2>00 DEF Mint, Begin, Minting, NoLoss, Progress
  <2>5. Undone'
    <3>1. /\ mem[m] = nil /\ mem' = [mem EXCEPT ![m] = [label |-> name, seen |-> never]]
          /\ op'.id = m /\ OnDisk' = OnDisk /\ unsaved' = unsaved
      BY <1>3 DEF Mint, Begin
    <3>2. ~unsaved => mem = OnDisk BY <1>3 DEF Mint, FileIsCurrent
    <3>3. [mem' EXCEPT ![m] = nil] = mem BY <3>1
    <3> QED BY <3>1, <3>2, <3>3 DEF Undone
  <2>6. Failed' BY <1>3, <2>0 DEF Mint, Begin, Failed, Progress
  <2>7. Kept' BY <1>3, <2>0 DEF Mint, Begin, Kept, Progress, Minting, Gone
  <2>8. Gone' BY <1>3, <2>0 DEF Mint, Begin, Gone, Progress, Minting
  <2>9. FileIsCurrent' BY <1>3, <2>0 DEF Mint, Begin, FileIsCurrent, Progress, Undone, Failed
  <2> QED BY <2>1, <2>2, <2>3, <2>4, <2>5, <2>6, <2>7, <2>8, <2>9
<1>4. ASSUME NEW m \in Machines, NEW name \in Labels \cup {blank},
             NEW now \in Times, Touch(m, name, now) PROVE StoreInv'
  <2>0. op' \in Ops /\ op' # nil
    BY <1>4 DEF Touch, Begin
  <2>00. [label |-> IF name = blank THEN mem[m].label ELSE name, seen |-> now] \in Records
    BY <1>4 DEF Touch, Records
  <2>1. FileIsWhole' BY <1>4, <2>0 DEF Touch, Begin, FileIsWhole
  <2>2. Progress' BY <1>4, <2>0 DEF Touch, Begin, Progress
  <2>3. NoLoss' BY <1>4, <2>0, <2>00 DEF Touch, Begin, NoLoss, Progress
  <2>4. Minting' BY <1>4, <2>0 DEF Touch, Begin, Minting, NoLoss, Progress
  <2>5. Undone' BY <1>4, <2>0 DEF Touch, Begin, Undone, Minting, Progress, FileIsCurrent
  <2>6. Failed' BY <1>4, <2>0 DEF Touch, Begin, Failed, Progress
  <2>7. Kept' BY <1>4, <2>0, <2>00 DEF Touch, Begin, Kept, Progress, Minting, Gone
  <2>8. Gone' BY <1>4, <2>0 DEF Touch, Begin, Gone, Progress, Minting
  <2>9. FileIsCurrent' BY <1>4, <2>0 DEF Touch, Begin, FileIsCurrent, Progress, Undone, Failed
  <2> QED BY <2>1, <2>2, <2>3, <2>4, <2>5, <2>6, <2>7, <2>8, <2>9
<1>5. ASSUME NEW m \in Machines, Delete(m) PROVE StoreInv'
  <2>0. op' \in Ops /\ op' # nil
    BY <1>5 DEF Delete, Begin
  <2>1. FileIsWhole' BY <1>5, <2>0 DEF Delete, Begin, FileIsWhole
  <2>2. Progress' BY <1>5, <2>0 DEF Delete, Begin, Progress
  <2>3. NoLoss' BY <1>5, <2>0 DEF Delete, Begin, NoLoss, Progress
  <2>4. Minting' BY <1>5, <2>0 DEF Delete, Begin, Minting, NoLoss, Progress
  <2>5. Undone' BY <1>5, <2>0 DEF Delete, Begin, Undone, Minting, Progress, FileIsCurrent
  <2>6. Failed' BY <1>5, <2>0 DEF Delete, Begin, Failed, Progress
  <2>7. Kept' BY <1>5, <2>0 DEF Delete, Begin, Kept, Progress, Minting, Gone
  <2>8. Gone' BY <1>5, <2>0 DEF Delete, Begin, Gone, Progress, Minting
  <2>9. FileIsCurrent' BY <1>5, <2>0 DEF Delete, Begin, FileIsCurrent, Progress, Undone, Failed
  <2> QED BY <2>1, <2>2, <2>3, <2>4, <2>5, <2>6, <2>7, <2>8, <2>9
<1>6. CASE RemoveTmp
  <2>0. op' \in Ops /\ op' # nil
    BY <1>6 DEF RemoveTmp, Goto
  <2>1. FileIsWhole' BY <1>6, <2>0 DEF RemoveTmp, Goto, FileIsWhole
  <2>2. Progress' BY <1>6, <2>0 DEF RemoveTmp, Goto, Progress
  <2>3. NoLoss' BY <1>6, <2>0 DEF RemoveTmp, Goto, NoLoss, Progress
  <2>4. Minting' BY <1>6, <2>0 DEF RemoveTmp, Goto, Minting, NoLoss, Progress
  <2>5. Undone' BY <1>6, <2>0 DEF RemoveTmp, Goto, Undone, Minting, Progress, FileIsCurrent
  <2>6. Failed' BY <1>6, <2>0 DEF RemoveTmp, Goto, Failed, Progress
  <2>7. Kept' BY <1>6, <2>0 DEF RemoveTmp, Goto, Kept, Progress, Minting, Gone
  <2>8. Gone' BY <1>6, <2>0 DEF RemoveTmp, Goto, Gone, Progress, Minting
  <2>9. FileIsCurrent' BY <1>6, <2>0 DEF RemoveTmp, Goto, FileIsCurrent, Progress, Undone, Failed
  <2> QED BY <2>1, <2>2, <2>3, <2>4, <2>5, <2>6, <2>7, <2>8, <2>9
<1>7. CASE CreateTmp
  <2>0. op' \in Ops /\ op' # nil
    BY <1>7 DEF CreateTmp, Goto
  <2>1. FileIsWhole' BY <1>7, <2>0 DEF CreateTmp, Goto, FileIsWhole
  <2>2. Progress' BY <1>7, <2>0 DEF CreateTmp, Goto, Progress
  <2>3. NoLoss' BY <1>7, <2>0 DEF CreateTmp, Goto, NoLoss, Progress
  <2>4. Minting' BY <1>7, <2>0 DEF CreateTmp, Goto, Minting, NoLoss, Progress
  <2>5. Undone' BY <1>7, <2>0 DEF CreateTmp, Goto, Undone, Minting, Progress, FileIsCurrent
  <2>6. Failed' BY <1>7, <2>0 DEF CreateTmp, Goto, Failed, Progress
  <2>7. Kept' BY <1>7, <2>0 DEF CreateTmp, Goto, Kept, Progress, Minting, Gone
  <2>8. Gone' BY <1>7, <2>0 DEF CreateTmp, Goto, Gone, Progress, Minting
  <2>9. FileIsCurrent' BY <1>7, <2>0 DEF CreateTmp, Goto, FileIsCurrent, Progress, Undone, Failed
  <2> QED BY <2>1, <2>2, <2>3, <2>4, <2>5, <2>6, <2>7, <2>8, <2>9
<1>8. CASE WriteTmp
  <2>0. op' \in Ops /\ op' # nil
    BY <1>8 DEF WriteTmp, Goto
  <2>1. FileIsWhole' BY <1>8, <2>0 DEF WriteTmp, Goto, FileIsWhole
  <2>2. Progress' BY <1>8, <2>0 DEF WriteTmp, Goto, Progress
  <2>3. NoLoss' BY <1>8, <2>0 DEF WriteTmp, Goto, NoLoss, Progress
  <2>4. Minting' BY <1>8, <2>0 DEF WriteTmp, Goto, Minting, NoLoss, Progress
  <2>5. Undone' BY <1>8, <2>0 DEF WriteTmp, Goto, Undone, Minting, Progress, FileIsCurrent
  <2>6. Failed' BY <1>8, <2>0 DEF WriteTmp, Goto, Failed, Progress
  <2>7. Kept' BY <1>8, <2>0 DEF WriteTmp, Goto, Kept, Progress, Minting, Gone
  <2>8. Gone' BY <1>8, <2>0 DEF WriteTmp, Goto, Gone, Progress, Minting
  <2>9. FileIsCurrent' BY <1>8, <2>0 DEF WriteTmp, Goto, FileIsCurrent, Progress, Undone, Failed
  <2> QED BY <2>1, <2>2, <2>3, <2>4, <2>5, <2>6, <2>7, <2>8, <2>9
<1>9. CASE CloseTmp
  <2>0. op' \in Ops /\ op' # nil
    BY <1>9 DEF CloseTmp, Goto
  <2>1. FileIsWhole' BY <1>9, <2>0 DEF CloseTmp, Goto, FileIsWhole
  <2>2. Progress' BY <1>9, <2>0 DEF CloseTmp, Goto, Progress
  <2>3. NoLoss' BY <1>9, <2>0 DEF CloseTmp, Goto, NoLoss, Progress
  <2>4. Minting' BY <1>9, <2>0 DEF CloseTmp, Goto, Minting, NoLoss, Progress
  <2>5. Undone' BY <1>9, <2>0 DEF CloseTmp, Goto, Undone, Minting, Progress, FileIsCurrent
  <2>6. Failed' BY <1>9, <2>0 DEF CloseTmp, Goto, Failed, Progress
  <2>7. Kept' BY <1>9, <2>0 DEF CloseTmp, Goto, Kept, Progress, Minting, Gone
  <2>8. Gone' BY <1>9, <2>0 DEF CloseTmp, Goto, Gone, Progress, Minting
  <2>9. FileIsCurrent' BY <1>9, <2>0 DEF CloseTmp, Goto, FileIsCurrent, Progress, Undone, Failed
  <2> QED BY <2>1, <2>2, <2>3, <2>4, <2>5, <2>6, <2>7, <2>8, <2>9
<1>10. CASE RenameTmp
  <2>0. op' \in Ops /\ op' # nil
    BY <1>10 DEF RenameTmp, Goto
  <2>1. FileIsWhole' BY <1>10, <2>0 DEF RenameTmp, Goto, FileIsWhole, Progress
  <2>2. Progress' BY <1>10, <2>0 DEF RenameTmp, Goto, Progress
  <2>3. NoLoss' BY <1>10, <2>0 DEF RenameTmp, Goto, NoLoss, Progress
  <2>4. Minting' BY <1>10, <2>0 DEF RenameTmp, Goto, Minting, NoLoss, Progress
  <2>5. Undone' BY <1>10, <2>0 DEF RenameTmp, Goto, Undone, Minting, Progress, FileIsCurrent
  <2>6. Failed' BY <1>10, <2>0 DEF RenameTmp, Goto, Failed, Progress
  <2>7. Kept' BY <1>10, <2>0 DEF RenameTmp, Goto, Kept, Progress, Minting, Gone
  <2>8. Gone' BY <1>10, <2>0 DEF RenameTmp, Goto, Gone, Progress, Minting
  <2>9. FileIsCurrent' BY <1>10, <2>0 DEF RenameTmp, Goto, FileIsCurrent, Progress, Undone, Failed
  <2> QED BY <2>1, <2>2, <2>3, <2>4, <2>5, <2>6, <2>7, <2>8, <2>9
<1>11. CASE SaveFails
  <2>0. op' \in Ops /\ op' # nil
    BY <1>11 DEF SaveFails, Goto
  <2>1. FileIsWhole' BY <1>11, <2>0 DEF SaveFails, Goto, FileIsWhole
  <2>2. Progress' BY <1>11, <2>0 DEF SaveFails, Goto, Progress
  <2>3. NoLoss' BY <1>11, <2>0 DEF SaveFails, Goto, NoLoss, Progress
  <2>4. Minting' BY <1>11, <2>0 DEF SaveFails, Goto, Minting, NoLoss, Progress
  <2>5. Undone' BY <1>11, <2>0 DEF SaveFails, Goto, Undone, Minting, Progress, FileIsCurrent
  <2>6. Failed' BY <1>11, <2>0 DEF SaveFails, Goto, Failed, Progress
  <2>7. Kept' BY <1>11, <2>0 DEF SaveFails, Goto, Kept, Progress, Minting, Gone
  <2>8. Gone' BY <1>11, <2>0 DEF SaveFails, Goto, Gone, Progress, Minting
  <2>9. FileIsCurrent' BY <1>11, <2>0 DEF SaveFails, Goto, FileIsCurrent, Progress, Undone, Failed
  <2> QED BY <2>1, <2>2, <2>3, <2>4, <2>5, <2>6, <2>7, <2>8, <2>9
<1>12. CASE Return
  <2>a. ASSUME op.kind = "mint" /\ op.at = "failed" PROVE NoLoss' /\ Kept' /\ Gone'
    <3>1. /\ mem' = [mem EXCEPT ![op.id] = nil] /\ refused' = refused \cup {op.id}
          /\ op' = nil /\ UNCHANGED <<up, file, tmp, acked, condemned, revoked, unsaved>>
      BY <1>12, <2>a DEF Return
    <3>2. op.id \in Machines /\ op.id \notin acked \cup condemned /\ OnDisk[op.id] = nil
      BY <1>12, <2>a DEF Minting, Return
    <3> QED BY <2>a, <3>1, <3>2 DEF NoLoss, Kept, Gone, Progress
  <2>b. ASSUME ~(op.kind = "mint" /\ op.at = "failed") PROVE NoLoss' /\ Kept' /\ Gone'
    <3>1. /\ mem' = mem /\ refused' = refused /\ op' = nil /\ up' = up /\ file' = file
          /\ condemned' = condemned
          /\ acked' = IF op.kind = "mint" THEN acked \cup {op.id} ELSE acked
      BY <1>12, <2>b DEF Return
    <3>2. op.kind = "mint" => op.id \in Machines /\ mem[op.id] # nil /\ OnDisk[op.id] # nil
      BY <1>12, <2>b DEF Return, Progress, Minting
    <3> QED BY <2>b, <3>1, <3>2 DEF NoLoss, Kept, Gone, Progress
  <2>1. FileIsWhole' BY <1>12 DEF Return, FileIsWhole
  <2>2. Progress' BY <1>12 DEF Return, Progress
  <2>3. NoLoss' BY <2>a, <2>b
  <2>4. Minting' BY <1>12 DEF Return, Minting, NoLoss, Progress
  <2>5. Undone' BY <1>12 DEF Return, Undone, Minting, Progress, FileIsCurrent
  <2>6. Failed' BY <1>12 DEF Return, Failed, Progress
  <2>7. Kept' BY <2>a, <2>b
  <2>8. Gone' BY <2>a, <2>b
  <2>9. FileIsCurrent' BY <1>12 DEF Return, FileIsCurrent, Progress, Undone, Failed
  <2> QED BY <2>1, <2>2, <2>3, <2>4, <2>5, <2>6, <2>7, <2>8, <2>9
<1>13. CASE DiskTurns \/ UNCHANGED vars
  BY <1>13 DEF DiskTurns, vars, FileIsWhole, Progress, NoLoss, Minting, Undone,
     Failed, Kept, Gone, FileIsCurrent
<1> QED BY <1>1, <1>2, <1>3, <1>4, <1>5, <1>6, <1>7, <1>8, <1>9, <1>10, <1>11, <1>12, <1>13
     DEF Next, SaveStep

(* The invariant holds throughout. *)
LEMMA StoreInvariance == Spec => []StoreInv
<1>1. StoreInv /\ [Next]_vars => StoreInv' BY StoreStep
<1> QED BY StoreInit, <1>1, PTL DEF Spec

(* A machine whose token Mint returned is in the file until its deletion is *)
(* asked for, through every crash and every save that fails.                *)
THEOREM MintIsDurableTheorem == Spec => []MintIsDurable
<1>1. StoreInv => MintIsDurable
  BY NilAssumption DEF StoreInv, TypeOK, Kept, FileIsWhole, MintIsDurable, Saved, OnDisk, Empty, Tables
<1> QED BY <1>1, StoreInvariance, PTL

(* A Mint that returned an error never becomes a machine, in memory or, by  *)
(* a later save or a restart, in the file.                                  *)
THEOREM RefusedMintIsGoneTheorem == Spec => []RefusedMintIsGone
<1>1. StoreInv => RefusedMintIsGone
  BY DEF StoreInv, TypeOK, Gone, RefusedMintIsGone, Saved, OnDisk
<1> QED BY <1>1, StoreInvariance, PTL

(* The file is whole at every moment, whichever call of save fails and      *)
(* wherever the process dies.                                               *)
THEOREM FileIsWholeTheorem == Spec => []FileIsWhole
<1>1. StoreInv => FileIsWhole BY DEF StoreInv
<1> QED BY <1>1, StoreInvariance, PTL

(* Between operations memory and file differ only when the last save failed.*)
THEOREM FileIsCurrentTheorem == Spec => []FileIsCurrent
<1>1. StoreInv => FileIsCurrent BY DEF StoreInv
<1> QED BY <1>1, StoreInvariance, PTL

(* Every variable of the store keeps its type.                              *)
THEOREM StoreTypeTheorem == Spec => []TypeOK
<1>1. StoreInv => TypeOK BY DEF StoreInv
<1> QED BY <1>1, StoreInvariance, PTL

---------------------------------------------------------------------------
(* What a Delete comes to.                                                  *)

\* No table has a record of m.
Forgotten(m) == mem[m] = nil /\ OnDisk[m] = nil

(* A deletion that has reached the file is final: no save, rollback, crash  *)
(* or restart brings the machine back.  One whose save failed is what       *)
(* RevokedStaysGone overlooks; the next save that works makes it final,     *)
(* unless a restart comes first (store.go:33-80, 92-103, 145-154).           *)
DeletionIsFinal ==
    [][\A m \in condemned : Forgotten(m) => Forgotten(m)']_vars

(* No step brings a forgotten machine back. *)
LEMMA ForgottenStays ==
  ASSUME StoreInv, [Next]_vars, NEW m \in condemned, Forgotten(m)
  PROVE  Forgotten(m)'
<1> USE DEF StoreInv, TypeOK, Tables, history
<1>0. m \in Machines /\ Empty[m] = nil /\ nil \notin Tables BY NilAssumption DEF Empty
<1>1. ASSUME UNCHANGED <<mem, file>> PROVE Forgotten(m)' BY <1>1 DEF Forgotten, OnDisk
<1>2. CASE Open BY <1>0, <1>2 DEF Open, Forgotten, OnDisk
<1>3. CASE Crash BY <1>0, <1>3 DEF Crash, Forgotten, OnDisk
<1>4. ASSUME NEW n \in Machines, NEW name \in Labels \cup {blank},
             Mint(n, name) \/ \E now \in Times : Touch(n, name, now)
      PROVE  Forgotten(m)'
  <2>1. n # m BY <1>4 DEF Mint, Touch, Forgotten
  <2> QED BY <1>0, <1>4, <2>1 DEF Mint, Touch, Forgotten, OnDisk
<1>5. ASSUME NEW n \in Machines, Delete(n) PROVE Forgotten(m)'
  BY <1>0, <1>5 DEF Delete, Forgotten, OnDisk
<1>6. CASE RemoveTmp \/ CreateTmp \/ WriteTmp \/ CloseTmp \/ SaveFails
  BY <1>1, <1>6 DEF RemoveTmp, CreateTmp, WriteTmp, CloseTmp, SaveFails
<1>7. CASE RenameTmp
  <2>1. file' = mem /\ mem' = mem BY <1>7 DEF RenameTmp, Progress
  <2> QED BY <1>0, <2>1 DEF Forgotten, OnDisk
<1>8. CASE Return
  <2>1. mem' \in {mem, [mem EXCEPT ![op.id] = nil]} /\ file' = file
    BY <1>8 DEF Return, Ops
  <2> QED BY <1>0, <2>1 DEF Forgotten, OnDisk
<1>9. CASE SaveStep BY <1>6, <1>7, <1>8, <1>9 DEF SaveStep
<1>10. CASE DiskTurns \/ UNCHANGED vars BY <1>1, <1>10 DEF DiskTurns, vars
<1> QED BY <1>2, <1>3, <1>4, <1>5, <1>9, <1>10 DEF Next

(* Once neither memory nor the file has a deleted machine, it is gone for   *)
(* good.                                                                    *)
THEOREM DeletionIsFinalTheorem == Spec => DeletionIsFinal
<1> DEFINE Final == \A m \in condemned : Forgotten(m) => Forgotten(m)'
<1>1. StoreInv /\ [Next]_vars => Final BY ForgottenStays
<1>2. StoreInv /\ [Next]_vars => [Final]_vars BY <1>1
<1> QED BY <1>2, StoreInvariance, PTL DEF Spec, DeletionIsFinal
=============================================================================
