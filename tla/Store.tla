------------------------------- MODULE Store -------------------------------
(***************************************************************************)
(* internal/store/store.go: the machines in memory, the JSON file, and save *)
(* with the temporary file it writes first.  Every exported method holds    *)
(* s.mu to its end, so at most one operation is under way; the process may  *)
(* die between any two file system calls, and while the disk does not work  *)
(* each call may fail.  A death is the process's, not the machine's: what a *)
(* completed call did to the files stays.                                   *)
(***************************************************************************)
CONSTANTS Machines,   \* ids that Mint may draw; randHex never repeats one
          Labels,     \* non-empty names and agent versions
          blank,      \* the empty name or version
          Times,      \* what the clock may show; it may be set back
          never,      \* the zero time, of a machine nobody has heard of
          nil,        \* no record, no file, no operation
          torn        \* the content of a file that was not written to its end

ASSUME StoreAssumption ==
    /\ never \notin Times
    /\ blank \notin Labels
    /\ nil # torn
    /\ nil \notin Machines

VARIABLES
    up,        \* whether the process runs
    mem,       \* s.m, nil where there is no record
    file,      \* s.path: nil, torn or the table it holds
    tmp,       \* s.path + ".tmp", likewise
    op,        \* the operation that holds s.mu, nil if none
    acked,     \* history: machines whose token Mint returned
    refused,   \* history: machines whose Mint returned an error
    condemned, \* history: machines for which Delete was called
    revoked,   \* history: machines for which Delete returned true
    unsaved,   \* history: the last save failed; the file misses a mutation
    works      \* whether the disk works; if not, its calls may fail

history == <<acked, refused, condemned, revoked>>
vars == <<up, mem, file, tmp, op, history, unsaved, works>>

Records == [label : Labels \cup {blank}, seen : Times \cup {never}]
Tables == [Machines -> Records \cup {nil}]
Empty == [m \in Machines |-> nil]

Ops == [kind : {"mint", "touch", "delete"}, id : Machines,
        at : {"remove", "create", "write", "close", "rename", "failed", "saved"}]

ASSUME NilAssumption ==
    /\ nil \notin Ops \cup Records \cup Tables
    /\ torn \notin Tables

Init ==
    /\ up = FALSE
    /\ mem = Empty
    /\ file = nil /\ tmp = nil
    /\ op = nil
    /\ acked = {} /\ refused = {} /\ condemned = {} /\ revoked = {}
    /\ unsaved = FALSE /\ works = TRUE

\* Open.  A file that is not a whole table is refused: the broker exits.
Open ==
    /\ ~up /\ file # torn
    /\ up' = TRUE
    /\ mem' = IF file = nil THEN Empty ELSE file
    /\ unsaved' = FALSE
    /\ UNCHANGED <<file, tmp, op, history, works>>

Crash ==
    /\ up
    /\ up' = FALSE
    /\ mem' = Empty
    /\ op' = nil
    /\ UNCHANGED <<file, tmp, history, unsaved, works>>

\* A full disk, lost permissions: for a while, or for good.
DiskTurns ==
    /\ works' = ~works
    /\ UNCHANGED <<up, mem, file, tmp, op, history, unsaved>>

Idle == up /\ op = nil

Begin(kind, m) == op' = [kind |-> kind, id |-> m, at |-> "remove"]

Mint(m, name) ==
    /\ Idle /\ mem[m] = nil
    /\ m \notin acked \cup refused \cup condemned
    /\ mem' = [mem EXCEPT ![m] = [label |-> name, seen |-> never]]
    /\ Begin("mint", m)
    /\ UNCHANGED <<up, file, tmp, history, unsaved, works>>

\* A blank name or version keeps the one on record.
Touch(m, name, now) ==
    /\ Idle /\ mem[m] # nil
    /\ mem' = [mem EXCEPT ![m] =
                 [label |-> IF name = blank THEN @.label ELSE name, seen |-> now]]
    /\ Begin("touch", m)
    /\ UNCHANGED <<up, file, tmp, history, unsaved, works>>

Delete(m) ==
    /\ Idle /\ mem[m] # nil
    /\ mem' = [mem EXCEPT ![m] = nil]
    /\ Begin("delete", m)
    /\ condemned' = condemned \cup {m}
    /\ UNCHANGED <<up, file, tmp, acked, refused, revoked, unsaved, works>>

---------------------------------------------------------------------------
(* save, one file system call at a time.                                    *)

At(step) == op # nil /\ op.at = step

Goto(step) == op' = [op EXCEPT !.at = step]

\* Mutant of RemoveTmp: what a crash left behind stays there.
RemoveNothing ==
    /\ At("remove")
    /\ Goto("create")
    /\ UNCHANGED <<up, mem, file, tmp, history, unsaved, works>>

\* The error of os.Remove is not looked at.
RemoveTmp ==
    /\ At("remove")
    /\ tmp' = nil \/ (~works /\ UNCHANGED tmp)
    /\ Goto("create")
    /\ UNCHANGED <<up, mem, file, history, unsaved, works>>

\* Mutant of CreateTmp: the file itself is truncated and written.
CreateInPlace ==
    /\ At("create")
    /\ file' = torn
    /\ Goto("write")
    /\ UNCHANGED <<up, mem, tmp, history, unsaved, works>>

CreateTmp ==
    /\ At("create") /\ tmp = nil
    /\ tmp' = torn
    /\ Goto("write")
    /\ UNCHANGED <<up, mem, file, history, unsaved, works>>

WriteTmp ==
    /\ At("write")
    /\ tmp' = mem
    /\ Goto("close")
    /\ UNCHANGED <<up, mem, file, history, unsaved, works>>

CloseTmp ==
    /\ At("close")
    /\ Goto("rename")
    /\ UNCHANGED <<up, mem, file, tmp, history, unsaved, works>>

RenameTmp ==
    /\ At("rename")
    /\ file' = tmp
    /\ tmp' = nil
    /\ unsaved' = FALSE
    /\ Goto("saved")
    /\ UNCHANGED <<up, mem, history, works>>

\* Any call but the removal makes save return its error.  O_EXCL: a tmp that
\* is there is an error, on a disk that works too.  A failed write or close
\* leaves a torn tmp behind.
SaveFails ==
    /\ op # nil /\ op.at \in {"create", "write", "close", "rename"}
    /\ ~works \/ (op.at = "create" /\ tmp # nil)
    /\ tmp' = IF op.at \in {"write", "close"} THEN torn ELSE tmp
    /\ unsaved' = (unsaved \/ op.kind # "mint")
    /\ Goto("failed")
    /\ UNCHANGED <<up, mem, file, history, works>>

\* Mutants of Return: Mint keeps the machine it could not save; Mint returns a
\* token that was not saved.
ReturnWithoutRollback ==
    /\ op # nil /\ op.at \in {"failed", "saved"}
    /\ acked' = IF op.kind = "mint" /\ op.at = "saved" THEN acked \cup {op.id} ELSE acked
    /\ refused' = IF op.kind = "mint" /\ op.at = "failed" THEN refused \cup {op.id} ELSE refused
    /\ revoked' = IF op.kind = "delete" THEN revoked \cup {op.id} ELSE revoked
    /\ op' = nil
    /\ UNCHANGED <<up, mem, file, tmp, condemned, unsaved, works>>

ReturnIgnoringError ==
    /\ op # nil /\ op.at \in {"failed", "saved"}
    /\ acked' = IF op.kind = "mint" THEN acked \cup {op.id} ELSE acked
    /\ revoked' = IF op.kind = "delete" THEN revoked \cup {op.id} ELSE revoked
    /\ op' = nil
    /\ UNCHANGED <<up, mem, file, tmp, refused, condemned, unsaved, works>>

\* The operation returns: Mint rolls back when save failed, Touch and Delete
\* ignore the error.
Return ==
    /\ op # nil /\ op.at \in {"failed", "saved"}
    /\ LET m == op.id
           failed == op.at = "failed"
       IN  CASE op.kind = "mint" /\ failed ->
                  /\ mem' = [mem EXCEPT ![m] = nil]
                  /\ refused' = refused \cup {m}
                  /\ UNCHANGED <<acked, condemned, revoked>>
             [] op.kind = "mint" /\ ~failed ->
                  /\ acked' = acked \cup {m}
                  /\ UNCHANGED <<mem, refused, condemned, revoked>>
             [] op.kind = "touch" -> UNCHANGED <<mem, history>>
             [] op.kind = "delete" ->
                  /\ revoked' = revoked \cup {m}
                  /\ UNCHANGED <<mem, acked, refused, condemned>>
    /\ op' = nil
    /\ UNCHANGED <<up, file, tmp, unsaved, works>>

\* The operation under way takes its next step.
SaveStep ==
    \/ RemoveTmp \/ CreateTmp \/ WriteTmp \/ CloseTmp \/ RenameTmp
    \/ SaveFails
    \/ Return

Next ==
    \/ Open
    \/ Crash
    \/ DiskTurns
    \/ \E m \in Machines :
          \/ \E name \in Labels \cup {blank} :
                Mint(m, name) \/ \E now \in Times : Touch(m, name, now)
          \/ Delete(m)
    \/ SaveStep

Spec == Init /\ [][Next]_vars

\* The goroutine that holds s.mu goes on: a call of the file system returns,
\* with or without an error.  Nobody has to call the store, start the broker
\* again or repair the disk.
FairSpec == Spec /\ WF_vars(SaveStep)

---------------------------------------------------------------------------
TypeOK ==
    /\ up \in BOOLEAN
    /\ mem \in Tables
    /\ file \in Tables \cup {nil, torn}
    /\ tmp \in Tables \cup {nil, torn}
    /\ op \in Ops \cup {nil}
    /\ acked \subseteq Machines /\ refused \subseteq Machines
    /\ condemned \subseteq Machines /\ revoked \subseteq Machines
    /\ unsaved \in BOOLEAN /\ works \in BOOLEAN

Saved(m) == file \notin {nil, torn} /\ file[m] # nil

(* "The enrollment token IS the durable machine identity" (store.go:91): a  *)
(* machine whose token was handed out is in the file, through every crash   *)
(* and failed save, unless its deletion was asked for.                      *)
MintIsDurable == \A m \in acked \ condemned : Saved(m)

(* A token that was never handed out does not come to life: a Mint that     *)
(* reported an error left no machine, not even after a restart or the next  *)
(* successful save of another operation.  (Mint's rollback, store.go:97.)   *)
RefusedMintIsGone ==
    \A m \in refused : ~Saved(m) /\ mem[m] = nil

(* Whatever dies or fails halfway, the file is whole: the broker never      *)
(* refuses to start over its own state.  (tmp and rename, store.go:63-80.)  *)
FileIsWhole == file # torn

(* Memory and file agree between operations unless the last save failed, so *)
(* a deletion whose save failed becomes durable with the next heartbeat.    *)
FileIsCurrent ==
    Idle /\ ~unsaved => mem = (IF file = nil THEN Empty ELSE file)

(* The store recovers by itself: once the disk works and the broker is not  *)
(* killed any more, every operation returns and no save fails, whatever the *)
(* deaths and failed calls of before left in the temporary file.  ("so a    *)
(* crashed save doesn't wedge us out of O_EXCL forever", store.go:66; three *)
(* Mints over a leftover, TestLeftoverTmpDoesNotWedgeSaves,                 *)
(* store_test.go:323.)                                                      *)
SavesRecover ==
    <>[](up /\ works) => []<>Idle /\ <>[](~At("failed"))

(* "gone after a restart too" (store_test.go:109): a machine for which      *)
(* Delete returned true is never found again.                               *)
RevokedStaysGone == \A m \in revoked : mem[m] = nil
=============================================================================
