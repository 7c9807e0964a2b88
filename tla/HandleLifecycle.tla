-------------------------- MODULE HandleLifecycle --------------------------
(***************************************************************************)
(* What the calls of the library acquire and what they give back: storage  *)
(* above and below the line (core/src/mem.c), the allocation of a DD name  *)
(* by SVC 99 (core/src/s99.c, iosvcs.c), the DCB (core/src/ihadcb.c) and   *)
(* the open dataset, through open_pds_for_read, open_pds_for_write,        *)
(* close_pds and the services of services/src/bpamio.c that a handle       *)
(* offers, and openmemdir of memdir.c.                                     *)
(*                                                                         *)
(* Every function is a sequence of steps: storage is obtained, a service   *)
(* is called, something is freed.  Nearly every step may fail, and most    *)
(* failures return at once, so that what the function holds is lost.       *)
(***************************************************************************)
EXTENDS Integers, Sequences, FiniteSets

CONSTANT MaxCalls    \* bound: calls made by the program

ASSUME CallsAssumption == MaxCalls \in Nat

VARIABLES
  handle,    \* does the program have a handle?
  kept,      \* what belongs to the handle
  op,        \* the function that runs, "none" between calls
  rest,      \* the steps it has before it
  got,       \* what it has acquired and not given back
  lost,      \* per resource: how many can no longer be reached
  blind,     \* S99 was called without one of its text units
  misfreed,  \* storage obtained below the line and given to free()
  answer,    \* of the last call
  call,      \* history: the call that was made last
  before,    \* history: lost when it was made
  calls      \* history: how many were made

vars == <<handle, kept, op, rest, got, lost, blind, misfreed, answer, call, before, calls>>

S99Storage == {"textunit", "rbx", "parms", "unit"}
DespStorage == {"desp", "desl", "desl_name", "desb"}

\* MALLOC24 obtains these by STORAGE OBTAIN.
Below24 == {"dcb", "decb", "block", "stowlist", "stowlistadd", "stowlist_r"}

\* What a handle consists of when it is given to the program.
Complete == {"bh", "DD", "dcb", "dcbe", "opencb", "OPEN", "decb", "block"}

Resource == Complete \cup S99Storage \cup DespStorage \cup Below24
              \cup {"closecb", "findcb", "rname", "qname"}

TypeOK ==
  /\ handle \in BOOLEAN
  /\ kept \subseteq Resource
  /\ got \subseteq Resource
  /\ lost \in [Resource -> Nat]
  /\ blind \in BOOLEAN
  /\ misfreed \subseteq Below24
  /\ answer \in {"none", "ok", "failed", "unset"}
  /\ calls \in 0 .. MaxCalls
  /\ op = "none" => rest = <<>> /\ got = {}

------------------------------------------------------------------------------
(* Steps.  "frees" names what the step gives back when it succeeds,         *)
(* "always" what it gives back in any case.                                 *)

NoStep == [gets |-> {}, frees |-> {}, always |-> {}, fails |-> FALSE, tested |-> TRUE]

\* MALLOC24, MALLOC31, calloc: NULL is tested.
Get(r) == [NoStep EXCEPT !.gets = {r}, !.fails = TRUE]

\* Two are asked for before either is tested.
GetBoth(r, s) == [NoStep EXCEPT !.gets = {r, s}, !.fails = TRUE]

\* NULL is not tested.
GetBlindly(r) == [Get(r) EXCEPT !.tested = FALSE]

Free(R) == [NoStep EXCEPT !.always = R]

Service(gets, frees) == [NoStep EXCEPT !.gets = gets, !.frees = frees, !.fails = TRUE]

\* The return code is kept while storage is freed, and answered.
ServiceThenFree(R) == [NoStep EXCEPT !.always = R, !.fails = TRUE]

Test == [NoStep EXCEPT !.fails = TRUE]

S99Init == <<Get("textunit"), Get("rbx"), Get("parms"), GetBlindly("unit")>>

S99Free == Free(S99Storage)

DsddAlloc == S99Init \o <<Service({"DD"}, {}), S99Free>>

\* Mutant: what S99 answers is dropped.
MutDdFree == S99Init \o <<[Service({}, {"DD"}) EXCEPT !.tested = FALSE], S99Free>>

DdFree == S99Init \o <<Service({}, {"DD"}), S99Free>>

\* init_dsnam_text_unit may find the name of the dataset too long.
AllocPds == <<Test>> \o DsddAlloc

\* The DD name is tested last.
DcbInit == <<Get("dcb"), Get("dcbe"), Test>>

\* Mutant: a failed OPEN is not noticed.
MutBpamOpen ==
  DcbInit \o <<Get("opencb"), [Service({"OPEN"}, {}) EXCEPT !.tested = FALSE], Test,
               Get("decb"), Get("block")>>

\* After OPEN comes the test for dcbdsgpo.
BpamOpen ==
  DcbInit \o <<Get("opencb"), Service({"OPEN"}, {}), Test, Get("decb"), Get("block")>>

\* open_pds_for_read, open_pds_for_write
OpenPds == <<Get("bh")>> \o AllocPds \o BpamOpen

\* close_pds as far as it returns early.
ClosePds == <<Get("closecb"), Service({}, {"OPEN"})>>

FindMember == <<Get("findcb"), ServiceThenFree({"findcb"})>>

InitDesp == <<Get("desp"), Get("desl"), Get("desl_name"), Get("desb")>>

FindDesp == InitDesp \o <<Service({}, {})>>

\* Mutant: desp is freed first.
MutFreesDespFirst == <<Free({"desp"}), Free(DespStorage)>>

\* Mutant: the area is forgotten.
MutForgetsDesb == <<Free(DespStorage \ {"desb"})>>

FreeDesp == <<Free(DespStorage)>>

\* Between the two smde_to_mstat may fail.
ReadMemdirEntry == FindDesp \o <<Test>> \o FreeDesp

\* write_member_dir_entry where the member is new, in a PDS, or in a PDSE.  There
\* update_pdse_member_dir_entry does not test the NULL of init_desp: it asks DESERV
\* without a list, which is taken to fail, and returns the rc it has not set.
StowNew    == <<GetBoth("stowlist", "stowlistadd"), Service({}, {})>>
StowPds    == <<GetBoth("stowlist", "stowlistadd"), Free({"stowlist"}), Get("stowlist_r"),
                Service({}, {})>>
StowUpdate == <<GetBoth("stowlist", "stowlistadd")>> \o InitDesp
                \o <<Service({}, {}), Service({}, {})>>

\* ispf_rname and ispf_qname, also when a name is too long.
EnqDeq == <<GetBoth("rname", "qname"), ServiceThenFree({"rname", "qname"})>>

GetDespAll == <<Get("desp"), Get("desb"), Service({}, {})>>

StepsOf(f) ==
  CASE f = "open"  -> OpenPds
    [] f = "close" -> ClosePds
    [] f = "find"  -> FindMember
    [] f = "readmemdir_entry" -> ReadMemdirEntry
    [] f = "stow_new"    -> StowNew
    [] f = "stow_pds"    -> StowPds
    [] f = "stow_update" -> StowUpdate
    [] f = "enq" -> EnqDeq
    [] f = "openmemdir" -> OpenPds \o GetDespAll

------------------------------------------------------------------------------

Lose(R) == lost' = [r \in Resource |-> lost[r] + IF r \in R THEN 1 ELSE 0]

\* ENQ and openmemdir need no handle; openmemdir has its own.
Call ==
  /\ op = "none"
  /\ calls < MaxCalls
  /\ \E f \in IF handle THEN {"close", "find", "readmemdir_entry", "stow_new", "stow_pds",
                              "stow_update", "enq"}
                        ELSE {"open", "openmemdir", "enq"} :
       /\ op' = f
       /\ call' = f
       /\ rest' = StepsOf(f)
  /\ before' = lost
  /\ calls' = calls + 1
  /\ answer' = "none"
  /\ blind' = (blind /\ handle)
  /\ UNCHANGED <<handle, kept, got, lost, misfreed>>

Running == op # "none" /\ rest # <<>>

\* What a step gives back is storage of the call or belongs to the handle.  Without
\* its text unit the name of a DD is neither learnt nor told: nobody knows the DD
\* that S99 allocates, and S99 frees none.
StepDone ==
  LET step  == Head(rest)
      gone  == step.frees \cup step.always
      known == IF blind THEN step.gets \ {"DD"} ELSE step.gets
  IN  /\ Running
      /\ blind => "DD" \notin step.frees \cap kept
      /\ got' = (got \cup known) \ gone
      /\ kept' = kept \ gone
      /\ misfreed' = misfreed \cup (gone \cap Below24)
      /\ Lose(step.gets \ known)
      /\ rest' = Tail(rest)
      /\ UNCHANGED <<handle, op, blind, answer, call, before, calls>>

\* A text unit that could not be copied is a NULL pointer in the list for S99.
StepFailedUnnoticed ==
  /\ Running
  /\ Head(rest).fails /\ ~Head(rest).tested
  /\ rest' = Tail(rest)
  /\ blind' = (blind \/ "unit" \in Head(rest).gets)
  /\ UNCHANGED <<handle, kept, op, got, lost, misfreed, answer, call, before, calls>>

\* The function returns and R is lost.  openmemdir drops what its close_pds answers;
\* update_pdse_member_dir_entry sets no rc unless it comes to the second STOW.
EndOfCall(f, R) ==
  /\ op' = "none"
  /\ rest' = <<>>
  /\ got' = {}
  /\ Lose(R)
  /\ answer' = IF call = "openmemdir" /\ f # "openmemdir" THEN "ok"
               ELSE IF rest = <<>> THEN "ok"
               ELSE IF f = "stow_update" /\ "stowlist" \in got /\ Len(rest) > 1 THEN "unset"
               ELSE "failed"

\* Early return.  close_pds leaves the handle to the program, openmemdir has then
\* nobody to leave it to; ddfree does not keep close_pds from freeing the handle.
StepFailed ==
  /\ Running
  /\ Head(rest).fails /\ Head(rest).tested
  /\ \E part \in SUBSET Head(rest).gets :
       LET left == (got \cup part) \ Head(rest).always
           gone == op = "ddfree" \/ (op = "close" /\ call = "openmemdir")
       IN  /\ part # {} => Cardinality(part) = 1 /\ Cardinality(Head(rest).gets) = 2
           /\ EndOfCall(op, IF op = "ddfree" THEN (left \cup kept) \ {"bh"}
                            ELSE IF gone THEN left \cup kept ELSE left)
           /\ kept' = IF gone THEN {} ELSE kept
           /\ handle' = (handle /\ ~gone)
  /\ UNCHANGED <<blind, misfreed, call, before, calls>>

Done(f) == op = f /\ rest = <<>>

OpenDone ==
  /\ Done("open")
  /\ handle' = TRUE
  /\ kept' = got
  /\ EndOfCall("open", {})
  /\ UNCHANGED <<blind, misfreed, call, before, calls>>

\* close_pds goes on with ddfree.
CloseDone ==
  /\ Done("close")
  /\ op' = "ddfree"
  /\ rest' = DdFree
  /\ UNCHANGED <<handle, kept, got, lost, blind, misfreed, answer, call, before, calls>>

\* free(bh) closes the matter.
DdFreeDone ==
  /\ Done("ddfree")
  /\ EndOfCall("ddfree", (got \cup kept) \ {"bh"})
  /\ handle' = FALSE
  /\ kept' = {}
  /\ UNCHANGED <<blind, misfreed, call, before, calls>>

\* The members are copied; close_pds follows and its answer is dropped.
OpenmemdirDone ==
  /\ Done("openmemdir")
  /\ op' = "close"
  /\ rest' = ClosePds
  /\ kept' = got \ {"desp", "desb"}
  /\ got' = {}
  /\ Lose({"desp", "desb"})
  /\ UNCHANGED <<handle, blind, misfreed, answer, call, before, calls>>

OtherDone ==
  /\ op \in {"find", "readmemdir_entry", "stow_new", "stow_pds", "stow_update", "enq"}
  /\ rest = <<>>
  /\ EndOfCall(op, got)
  /\ UNCHANGED <<handle, kept, blind, misfreed, call, before, calls>>

Init ==
  /\ handle = FALSE
  /\ kept = {}
  /\ op = "none"
  /\ rest = <<>>
  /\ got = {}
  /\ lost = [r \in Resource |-> 0]
  /\ blind = FALSE
  /\ misfreed = {}
  /\ answer = "none"
  /\ call = "none"
  /\ before = lost
  /\ calls = 0

Stop == op = "none" /\ calls = MaxCalls /\ UNCHANGED vars

Next ==
  \/ Call \/ StepDone \/ StepFailedUnnoticed \/ StepFailed
  \/ OpenDone \/ CloseDone \/ DdFreeDone \/ OpenmemdirDone \/ OtherDone
  \/ Stop

Spec == Init /\ [][Next]_vars

------------------------------------------------------------------------------
(* Properties                                                               *)

LostNow == [r \in Resource |-> lost[r] - before[r]]

\* A handle in the hands of the program is whole: its DD is allocated, its dataset
\* open, and its DCB, DECB and block are there.  That also holds after a call of
\* close_pds that failed and left the handle.  The one exception is the DD whose
\* name could not be read because its text unit was missing.
HandleIsComplete ==
  handle /\ op = "none" => kept = IF blind THEN Complete \ {"DD"} ELSE Complete

\* Whatever a function frees it has, or the handle has: nothing is freed twice,
\* but for a NULL text unit, which free() does not mind, and a DD whose name was
\* never known.  Storage from below the line is given to free() at one place,
\* where the dataset is a PDS.
FreesWhatItHas ==
  /\ Running => Head(rest).always \cup Head(rest).frees
                  \subseteq got \cup kept \cup (IF blind THEN {"unit", "DD"} ELSE {})
  /\ misfreed \subseteq {"stowlist"}

\* A DD or an open dataset is lost only by a call that answers a failure, or by
\* openmemdir when its close_pds fails; and by close_pds only together with the
\* handle, so that nobody can try again.  A missing text unit loses the DD untold.
LostIsTold ==
  op = "none" /\ ~blind /\ (LostNow["DD"] > 0 \/ LostNow["OPEN"] > 0) =>
    /\ answer = "failed" \/ call = "openmemdir"
    /\ call \in {"open", "close", "openmemdir"}
    /\ call = "close" => ~handle /\ LostNow["OPEN"] = 0

\* What a call that succeeds never gives back.
Leak(f) ==
  CASE f = "close" -> {"closecb", "dcb", "dcbe", "opencb", "decb", "block"}
    [] f = "openmemdir" -> {"closecb", "dcb", "dcbe", "opencb", "decb", "block", "desp", "desb"}
    [] f = "stow_new"    -> {"stowlist", "stowlistadd"}
    [] f = "stow_pds"    -> {"stowlist_r", "stowlistadd"}
    [] f = "stow_update" -> {"stowlist", "stowlistadd"} \cup DespStorage
    [] OTHER -> {}

\* A call that succeeds loses the storage above, once, and nothing else: a program
\* that finds, reads entries and enqueues loses nothing.  One that opens and closes
\* loses all but the handle itself each time, although bpamio.h:90 says that close_pds
\* frees any storage associated with the handle: this is by how much it falls short.
SuccessLeaks ==
  op = "none" /\ answer = "ok" /\ ~blind /\ (call = "openmemdir" => LostNow["DD"] = 0) =>
    LostNow = [r \in Resource |-> IF r \in Leak(call) THEN 1 ELSE 0]
=============================================================================
