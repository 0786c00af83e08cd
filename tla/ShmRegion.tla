------------------------------ MODULE ShmRegion ------------------------------
(***************************************************************************)
(* The named region of the framework (ipc/ShmRegion.hpp): producers create  *)
(* it, keep it through a move, write under a sequence number and close it;  *)
(* consumers open it, read it and leave.  Any process may die at any step.  *)
(* Memory is sequentially consistent, the payload is two words.  What a     *)
(* dead or closed holder leaves behind differs between the systems: on      *)
(* Windows an object lives as long as its handles, on POSIX its name stays  *)
(* until an owner unlinks it.                                               *)
(***************************************************************************)
EXTENDS Naturals, FiniteSets

CONSTANTS Producers, Consumers,
          Version,      \* producer -> the version it creates with; consumers expect 1
          Objects,      \* bound: objects there can be at once
          MaxCreates,   \* bound: calls of create()
          MaxWrites     \* bound: writes begun

RegionAssumption ==
  /\ Version \in [Producers -> Nat \ {0}] /\ Objects \subseteq Nat \ {0}
  /\ {MaxCreates, MaxWrites} \subseteq Nat

VARIABLES os,       \* "windows" or "posix"
          name,     \* the object the name stands for, or 0
          obj,      \* object -> [present, magic, version, pid, seq, words]
          result,   \* producer -> the region create() works on and returns
          kept,     \* producer -> the region it was moved to
          pc,       \* producer -> where it is in create() or in a write
          view,     \* consumer -> its region, its read in progress and the last one
          clashed,  \* history: a producer created while an owner lived
          creates, writes   \* bounds

vars == <<os, name, obj, result, kept, pc, view, clashed, creates, writes>>

Attempts == 3
Blank == [present |-> TRUE, magic |-> FALSE, version |-> 0, pid |-> 0, seq |-> 0,
          words |-> [i \in 1..2 |-> 0]]
Closed == [obj |-> 0, owner |-> FALSE]
NoView == [step |-> "closed", obj |-> 0, s0 |-> 0, tries |-> 0, got |-> [i \in 1..2 |-> 0],
           quiet |-> FALSE, ok |-> FALSE]

Init == /\ os \in {"windows", "posix"} /\ name = 0 /\ obj = [o \in Objects |-> Blank]
        /\ result = [p \in Producers |-> Closed] /\ kept = result
        /\ pc = [p \in Producers |-> "idle"] /\ view = [c \in Consumers |-> NoView]
        /\ clashed = FALSE /\ creates = 0 /\ writes = 0

----------------------------------------------------------------------------
(* Objects, handles and the name. *)

\* What is mapped, by the regions and views of some state.
Held(res, kep, vw) == {res[p].obj : p \in Producers} \cup {kep[p].obj : p \in Producers}
                        \cup {vw[c].obj : c \in Consumers}

\* The objects nobody maps, and the one a new name gets.
Spare == Objects \ Held(result, kept, view)
NewObject == CHOOSE o \in Spare : TRUE

\* The name once these are the holders: a Windows object goes with its last handle.
Left(n, held) == IF os = "windows" /\ n \notin held THEN 0 ELSE n

\* close(): the owner of a POSIX region unlinks the name, whatever it stands for.
Unlinked(r, n) == IF os = "posix" /\ r.obj # 0 /\ r.owner THEN 0 ELSE n

MovedStillOwner(r) == r                                 \* mutant: the source keeps what it had

\* The region a move leaves behind: closed and no owner.
Moved(r) == Closed

\* A re-creation of an object spoils the reads of it that are under way.
Disturb(o) == view' = [c \in Consumers |-> IF view[c].obj = o THEN [view[c] EXCEPT !.quiet = FALSE]
                                           ELSE view[c]]

----------------------------------------------------------------------------
(* create(), step by step: a process that creates a name that exists gets its object. *)

Create(p) ==
  /\ pc[p] = "idle" /\ result[p] = Closed /\ creates < MaxCreates /\ (name = 0 => Spare # {})
  /\ LET o == IF name # 0 THEN name ELSE NewObject
     IN
       /\ name' = o
       /\ obj' = [obj EXCEPT ![o] = IF os = "posix" THEN [Blank EXCEPT !.present = FALSE]
                                    ELSE IF name # 0 THEN @ ELSE Blank]
       /\ result' = [result EXCEPT ![p] = [obj |-> o, owner |-> TRUE]]
       /\ Disturb(o)
  /\ pc' = [pc EXCEPT ![p] = "created"] /\ creates' = creates + 1
  /\ clashed' = (clashed \/ \E q \in Producers : result[q].owner \/ kept[q].owner)
  /\ UNCHANGED <<os, kept, writes>>

\* One step of create() on the object it has mapped.
Step(p, from, to, new) ==
  /\ pc[p] = from /\ pc' = [pc EXCEPT ![p] = to]
  /\ obj' = [obj EXCEPT ![result[p].obj] = new]
  /\ Disturb(result[p].obj)
  /\ UNCHANGED <<os, name, result, kept, clashed, creates, writes>>

Mine(p) == obj[result[p].obj]

Size(p) == Step(p, "created", "sized", [Mine(p) EXCEPT !.present = TRUE])
ZeroHeader(p) == Step(p, "sized", "cleared", [Blank EXCEPT !.words = Mine(p).words])
ZeroPayload(p) == Step(p, "cleared", "zeroed", [Mine(p) EXCEPT !.words = Blank.words])
Describe(p) == Step(p, "zeroed", "described", [Mine(p) EXCEPT !.version = Version[p], !.pid = p])
SetMagic(p) == Step(p, "described", "ready", [Mine(p) EXCEPT !.magic = TRUE])

\* The file cannot be sized, or what was sized cannot be mapped: it is closed and, on POSIX,
\* unlinked.
CreateFails(p) ==
  /\ pc[p] \in {"created", "sized"} /\ pc' = [pc EXCEPT ![p] = "idle"]
  /\ result' = [result EXCEPT ![p] = Closed]
  /\ name' = Left(Unlinked(result[p], name), Held(result', kept, view))
  /\ UNCHANGED <<os, obj, kept, view, clashed, creates, writes>>

----------------------------------------------------------------------------
(* Keeping, closing, dying. *)

\* operator=(ShmRegion&&): what was kept is closed, then the result is taken over.
Keep(p) ==
  /\ pc[p] = "ready" /\ pc' = [pc EXCEPT ![p] = "moved"]
  /\ kept' = [kept EXCEPT ![p] = result[p]]
  /\ result' = [result EXCEPT ![p] = Moved(result[p])]
  /\ name' = Left(Unlinked(kept[p], name), Held(result', kept', view))
  /\ UNCHANGED <<os, obj, view, clashed, creates, writes>>

\* ~ShmRegion of the moved-from object.
Destroy(p) ==
  /\ pc[p] = "moved" /\ pc' = [pc EXCEPT ![p] = "idle"]
  /\ result' = [result EXCEPT ![p] = Closed]
  /\ name' = Left(Unlinked(result[p], name), Held(result', kept, view))
  /\ UNCHANGED <<os, obj, kept, view, clashed, creates, writes>>

\* close() of the region that is kept.
Close(p) ==
  /\ pc[p] = "idle" /\ kept[p] # Closed
  /\ kept' = [kept EXCEPT ![p] = Closed]
  /\ name' = Left(Unlinked(kept[p], name), Held(result, kept', view))
  /\ UNCHANGED <<os, obj, result, pc, view, clashed, creates, writes>>

\* A producer dies: nothing is unlinked.  One that touches an object cut to nothing dies too.
Dies(p) ==
  /\ result[p] # Closed \/ kept[p] # Closed
  /\ result' = [result EXCEPT ![p] = Closed] /\ kept' = [kept EXCEPT ![p] = Closed]
  /\ pc' = [pc EXCEPT ![p] = "idle"]
  /\ name' = Left(name, Held(result', kept', view))
  /\ UNCHANGED <<os, obj, view, clashed, creates, writes>>

----------------------------------------------------------------------------
(* A write under its guard. *)

Write(p, from, to, o) ==
  /\ pc[p] = from /\ kept[p] # Closed /\ obj[kept[p].obj].present
  /\ pc' = [pc EXCEPT ![p] = to] /\ obj' = [obj EXCEPT ![kept[p].obj] = o]
  /\ UNCHANGED <<os, name, result, kept, view, clashed, creates>>

Kept(p) == obj[kept[p].obj]

begin_write(p) == /\ writes < MaxWrites /\ writes' = writes + 1
                  /\ Write(p, "idle", "begun", [Kept(p) EXCEPT !.seq = @ + 1])
Word1(p) == Write(p, "begun", "half", [Kept(p) EXCEPT !.words[1] = writes]) /\ UNCHANGED writes
Word2(p) == Write(p, "half", "whole", [Kept(p) EXCEPT !.words[2] = writes]) /\ UNCHANGED writes
end_write(p) == Write(p, "whole", "idle", [Kept(p) EXCEPT !.seq = @ + 1]) /\ UNCHANGED writes

----------------------------------------------------------------------------
(* Consumers. *)

See(c, from, v) == /\ view[c].step = from /\ view' = [view EXCEPT ![c] = v]
                   /\ UNCHANGED <<os, obj, result, kept, pc, clashed, creates, writes>>
Seen(c) == obj[view[c].obj]

Open(c) == /\ name # 0 /\ UNCHANGED name
           /\ See(c, "closed", [NoView EXCEPT !.step = "mapped", !.obj = name])

\* open() checks what it mapped and closes it again when it is not what it expects.
Validate(c) ==
  /\ view[c].step = "mapped" /\ Seen(c).present
  /\ IF Seen(c).magic /\ Seen(c).version = 1
     THEN See(c, "mapped", [view[c] EXCEPT !.step = "open"]) /\ UNCHANGED name
     ELSE See(c, "mapped", NoView) /\ name' = Left(name, Held(result, kept, view'))

\* A consumer closes its view or dies.
Leave(c) == /\ view[c].step # "closed" /\ See(c, view[c].step, NoView)
            /\ name' = Left(name, Held(result, kept, view'))

\* try_read_consistent: up to three attempts.
Failed(v) == IF v.tries + 1 = Attempts THEN [v EXCEPT !.step = "open", !.tries = 0, !.ok = FALSE]
             ELSE [v EXCEPT !.step = "load", !.tries = @ + 1]

Begin(c) == See(c, "open", [view[c] EXCEPT !.step = "load", !.ok = FALSE]) /\ UNCHANGED name

Load(c) ==
  /\ view[c].step = "load" /\ Seen(c).present /\ UNCHANGED name
  /\ See(c, "load", IF Seen(c).seq % 2 = 1 THEN Failed(view[c])
                    ELSE [view[c] EXCEPT !.step = "copy1", !.s0 = Seen(c).seq, !.quiet = Seen(c).magic])

Copy1(c) == /\ view[c].step = "copy1" /\ Seen(c).present /\ UNCHANGED name
            /\ See(c, "copy1", [view[c] EXCEPT !.step = "copy2", !.got[1] = Seen(c).words[1]])
Copy2(c) == /\ view[c].step = "copy2" /\ Seen(c).present /\ UNCHANGED name
            /\ See(c, "copy2", [view[c] EXCEPT !.step = "check", !.got[2] = Seen(c).words[2]])

CheckedBefore(s0, s1) == TRUE                           \* mutant: the number is not read again
Consistent(s0, s1) == s0 = s1

Check(c) ==
  /\ view[c].step = "check" /\ Seen(c).present /\ UNCHANGED name
  /\ See(c, "check", IF Consistent(view[c].s0, Seen(c).seq)
                     THEN [view[c] EXCEPT !.step = "open", !.tries = 0, !.ok = TRUE]
                     ELSE Failed(view[c]))

Next == \/ \E p \in Producers :
             \/ Create(p) \/ Size(p) \/ ZeroHeader(p) \/ ZeroPayload(p) \/ Describe(p) \/ SetMagic(p)
             \/ CreateFails(p) \/ Keep(p) \/ Destroy(p) \/ Close(p) \/ Dies(p)
             \/ begin_write(p) \/ Word1(p) \/ Word2(p) \/ end_write(p)
        \/ \E c \in Consumers :
             \/ Open(c) \/ Validate(c) \/ Leave(c)
             \/ Begin(c) \/ Load(c) \/ Copy1(c) \/ Copy2(c) \/ Check(c)

Spec == Init /\ [][Next]_vars

----------------------------------------------------------------------------
(* Correctness, as long as owners follow each other. *)

\* What a consumer takes for consistent is one publication, whoever died in the middle of a
\* write, unless the region was created anew under the read.
ReadsAreWhole == \A c \in Consumers : view[c].ok /\ view[c].quiet => view[c].got[1] = view[c].got[2]

\* A region in use is the one its name leads to: no destructor, failed call or dead process
\* has taken the name away from it.
OwnersAreFound == \A p \in Producers : kept[p] # Closed => name = kept[p].obj

RegionIsSound == ~clashed => ReadsAreWhole /\ OwnersAreFound
=============================================================================
