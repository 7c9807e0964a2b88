----------------------------- MODULE MemberList -----------------------------
(***************************************************************************)
(* The member list of services/src/memdir.c: openmemdir decodes what       *)
(* DESERV GET_ALL answers, in one buffer after the other, into an array of *)
(* mstats, sorts it, copies it with all its strings into the list of the   *)
(* stream, frees the array and sorts again; readmemdir walks the list and  *)
(* closememdir frees it.                                                   *)
(*                                                                         *)
(* A name is its place in the order of strcmp.  A string is known by the   *)
(* array it was made for, the entry and the field: what matters of it is   *)
(* that it is made once, freed once, and not used after.                   *)
(***************************************************************************)
EXTENDS Integers, Sequences, FiniteSets

CONSTANTS
  Smdes,         \* the kinds of entries a directory may have
  MaxEntries,    \* bound: entries of a directory
  MaxBuffers     \* bound: buffers in which DESERV answers

Smde == [ name : Nat, alias : BOOLEAN, pname : BOOLEAN, alias_name : Nat, mem_id : Nat,
          ext : BOOLEAN, ext_changed : Nat, stats : BOOLEAN, ispf_changed : Nat ]

ASSUME EntriesAssumption ==
  /\ Smdes \subseteq Smde
  /\ MaxEntries \in Nat
  /\ MaxBuffers \in Nat \ {0}

VARIABLES
  desbs,         \* the buffers DESERV has answered: sequences of SMDEs
  sort_time, sort_reverse,
  pc,            \* where openmemdir or its caller is
  area,          \* the buffers that were not walked yet
  de_mstat,      \* the array of desp_to_mstats
  mdir_mstat,    \* head of struct MEMDIR_Internal
  cur,
  answer,        \* of the last readmemdir: an entry, 0 for NULL
  heap,          \* the strings that are allocated
  no_storage     \* history: a call of malloc, calloc or strdup has failed

input == <<desbs, sort_time, sort_reverse>>
vars == <<input, pc, area, de_mstat, mdir_mstat, cur, answer, heap, no_storage>>

Null == <<>>

Fields == {"name", "alias_name", "ext_id", "ispf_id"}

\* The entries of the first buffers, for each number of them.
Walked(buffers) == LET all[i \in 0 .. Len(buffers)] ==
                         IF i = 0 THEN <<>> ELSE all[i - 1] \o buffers[i]
                   IN  all

\* All entries in the order of the buffers, and how many there are.
Directory == Walked(desbs)[Len(desbs)]

Entries == Len(Directory)

------------------------------------------------------------------------------
(* desp_to_mstats and smde_to_mstat                                         *)

\* Mutant: the name is always taken from the primary name.
MutStringsOf(smde) ==
  { f \in Fields :
      CASE f = "name"       -> smde.pname
        [] f = "alias_name" -> smde.alias
        [] f = "ext_id"     -> smde.ext
        [] f = "ispf_id"    -> smde.stats }

\* The strings that an entry has: the alias of a PDS has no name.
StringsOf(smde) ==
  { f \in Fields :
      CASE f = "name"       -> smde.alias => smde.pname
        [] f = "alias_name" -> smde.alias
        [] f = "ext_id"     -> smde.ext
        [] f = "ispf_id"    -> smde.stats }

Mstat(i) ==
  LET smde == Directory[i]
  IN  [ id           |-> i,
        mem_id       |-> smde.mem_id,
        is_alias     |-> smde.alias,
        name         |-> smde.name,
        alias_name   |-> IF smde.alias THEN smde.alias_name ELSE 0,
        has_ext      |-> smde.ext,
        ext_changed  |-> IF smde.ext THEN smde.ext_changed ELSE 0,
        ispf_stats   |-> smde.stats,
        ispf_changed |-> IF smde.stats THEN smde.ispf_changed ELSE 0,
        str          |-> [f \in Fields |-> IF f \in StringsOf(smde) THEN <<"de", i, f>> ELSE Null] ]

Strings(mstats) == { m.str[f] : m \in {mstats[i] : i \in DOMAIN mstats}, f \in Fields } \ {Null}

\* Mutant: the link to the next buffer is lost.
MutNextDesb == area' = <<>>

\* desb_next
NextDesb == area' = Tail(area)

WalkDesb ==
  /\ pc = "decode"
  /\ area # <<>>
  /\ LET n == Len(de_mstat)
         m == Len(Head(area))
     IN  de_mstat' = de_mstat \o [i \in 1 .. m |-> Mstat(n + i)]
  /\ heap' = heap \cup Strings(de_mstat')
  /\ NextDesb
  /\ UNCHANGED <<input, pc, mdir_mstat, cur, answer, no_storage>>

\* The C library answers NULL for no bytes: desp_to_mstats does not say how many
\* members there are, and mstat_to_mdir looks at what is there.
NoEntries ==
  /\ pc = "decode"
  /\ Entries = 0
  /\ pc' \in {"failed", "undefined"}
  /\ UNCHANGED <<input, area, de_mstat, mdir_mstat, cur, answer, heap, no_storage>>

\* The same without storage, or NULL for the array with the number of entries.
NoStorageToDecode ==
  /\ pc = "decode"
  /\ Entries > 0
  /\ no_storage' = TRUE
  /\ pc' \in {"failed", "undefined"}
  /\ UNCHANGED <<input, area, de_mstat, mdir_mstat, cur, answer, heap>>

DecodeDone ==
  /\ pc = "decode"
  /\ area = <<>>
  /\ Entries > 0
  /\ pc' = "sort"
  /\ UNCHANGED <<input, area, de_mstat, mdir_mstat, cur, answer, heap, no_storage>>

------------------------------------------------------------------------------
(* The comparisons: less than, equal to or greater than 0                   *)

Strcmp(a, b) == a - b

CmpMemPrimaryAlias(l, r) ==
  CASE l.mem_id # r.mem_id     -> l.mem_id - r.mem_id
    [] l.mem_id = r.mem_id /\ l.is_alias # r.is_alias -> IF l.is_alias THEN 1 ELSE -1
    [] OTHER                   -> Strcmp(r.alias_name, l.alias_name)

\* Mutant: the statistics go before the extended attributes.
MutChgTime(m) == IF m.ispf_stats THEN m.ispf_changed
                 ELSE IF m.has_ext THEN m.ext_changed ELSE 0

ChgTime(m) == IF m.has_ext THEN m.ext_changed
              ELSE IF m.ispf_stats THEN m.ispf_changed ELSE 0

CmpDate(l, r) == ChgTime(l) - ChgTime(r)

CmpMem(l, r) ==
  CASE  sort_time /\  sort_reverse -> CmpDate(l, r)
    []  sort_time /\ ~sort_reverse -> - CmpDate(l, r)
    [] ~sort_time /\  sort_reverse -> Strcmp(r.name, l.name)
    [] ~sort_time /\ ~sort_reverse -> Strcmp(l.name, r.name)

\* qsort is not stable: any order that the comparison allows.
Orders(n) == { p \in [1 .. n -> 1 .. n] : \A i, j \in 1 .. n : p[i] = p[j] => i = j }

Sorted(mstats, Cmp(_, _)) ==
  { s \in { [i \in DOMAIN mstats |-> mstats[p[i]]] : p \in Orders(Len(mstats)) } :
      \A i \in 1 .. Len(mstats) - 1 : Cmp(s[i], s[i + 1]) <= 0 }

------------------------------------------------------------------------------
(* mstat_to_mdir                                                            *)

SortByMember ==
  /\ pc = "sort"
  /\ de_mstat' \in Sorted(de_mstat, CmpMemPrimaryAlias)
  /\ pc' = "dup"
  /\ UNCHANGED <<input, area, mdir_mstat, cur, answer, heap, no_storage>>

\* Mutant: the id of the statistics is shared.
MutDupFields(m) ==
  { f \in Fields : f = "name" \/ (f = "alias_name" /\ m.is_alias) \/ (f = "ext_id" /\ m.has_ext) }

\* The strings that are duplicated; the others are copied as pointers.
DupFields(m) ==
  { f \in Fields :
      CASE f = "name"       -> TRUE
        [] f = "alias_name" -> m.is_alias
        [] f = "ext_id"     -> m.has_ext /\ m.str[f] # Null
        [] f = "ispf_id"    -> m.ispf_stats /\ m.str[f] # Null }

FreeMstat(mstats) == heap' = (heap \cup Strings(mdir_mstat')) \ Strings(mstats)

CopyMstats ==
  /\ pc = "dup"
  /\ \A i \in DOMAIN de_mstat : de_mstat[i].str["name"] # Null
  /\ mdir_mstat' = [ i \in DOMAIN de_mstat |->
       [de_mstat[i] EXCEPT !.str = [f \in Fields |->
          IF f \in DupFields(de_mstat[i]) THEN <<"md", de_mstat[i].id, f>> ELSE @[f]]] ]
  /\ FreeMstat(de_mstat)
  /\ de_mstat' = <<>>
  /\ cur' = 0
  /\ pc' = "sort again"
  /\ UNCHANGED <<input, area, answer, no_storage>>

\* strdup(NULL), or strcmp on what a failed strdup has answered.
NameIsNull ==
  /\ pc = "dup"
  /\ no_storage' = (\A i \in DOMAIN de_mstat : de_mstat[i].str["name"] # Null)
  /\ pc' = "undefined"
  /\ UNCHANGED <<input, area, de_mstat, mdir_mstat, cur, answer, heap>>

NoStorageForList ==
  /\ pc = "dup"
  /\ no_storage' = TRUE
  /\ pc' = "failed"
  /\ UNCHANGED <<input, area, de_mstat, mdir_mstat, cur, answer, heap>>

SortAgain ==
  /\ pc = "sort again"
  /\ mdir_mstat' \in Sorted(mdir_mstat, CmpMem)
  /\ pc' = "open"
  /\ UNCHANGED <<input, area, de_mstat, cur, answer, heap, no_storage>>

------------------------------------------------------------------------------
(* readmemdir and closememdir                                               *)

AtEnd == cur = Len(mdir_mstat)

Readmemdir ==
  /\ pc = "open"
  /\ IF AtEnd THEN answer' = 0 /\ UNCHANGED cur
              ELSE answer' = mdir_mstat[cur + 1].id /\ cur' = cur + 1
  /\ UNCHANGED <<input, pc, area, de_mstat, mdir_mstat, heap, no_storage>>

Closememdir ==
  /\ pc = "open"
  /\ heap' = heap \ Strings(mdir_mstat)
  /\ mdir_mstat' = <<>>
  /\ pc' = "closed"
  /\ UNCHANGED <<input, area, de_mstat, cur, answer, no_storage>>

\* open_pds_for_read or DESERV fails.
OpenFails ==
  /\ pc = "new"
  /\ pc' = "failed"
  /\ UNCHANGED <<input, area, de_mstat, mdir_mstat, cur, answer, heap, no_storage>>

OpenPdsAndDeserv ==
  /\ pc = "new"
  /\ area' = desbs
  /\ pc' = "decode"
  /\ UNCHANGED <<input, de_mstat, mdir_mstat, cur, answer, heap, no_storage>>

Ended == pc \in {"failed", "undefined", "closed"} /\ UNCHANGED vars

Buffer == UNION { [1 .. n -> Smdes] : n \in 0 .. MaxEntries }

\* All ways to spread up to MaxEntries entries over the buffers, the last of
\* which may be empty.
Desbs ==
  { d \in UNION { [1 .. n -> Buffer] : n \in 1 .. MaxBuffers } :
      /\ \A i \in 1 .. Len(d) - 1 : d[i] # <<>>
      /\ Len(Walked(d)[Len(d)]) <= MaxEntries }

Init ==
  /\ desbs \in Desbs
  /\ sort_time \in BOOLEAN
  /\ sort_reverse \in BOOLEAN
  /\ pc = "new"
  /\ area = <<>>
  /\ de_mstat = <<>>
  /\ mdir_mstat = <<>>
  /\ cur = 0
  /\ answer = 0
  /\ heap = {}
  /\ no_storage = FALSE

Next ==
  \/ OpenFails \/ OpenPdsAndDeserv
  \/ WalkDesb \/ NoEntries \/ NoStorageToDecode \/ DecodeDone
  \/ SortByMember \/ CopyMstats \/ NameIsNull \/ NoStorageForList \/ SortAgain
  \/ Readmemdir \/ Closememdir
  \/ Ended

Spec == Init /\ [][Next]_vars

------------------------------------------------------------------------------
(* Properties                                                               *)

\* What the list is to be sorted by, from the directory itself: the name of the
\* member, also for an alias, or the time of the last change, newest first.
Key(i) ==
  LET smde == Directory[i]
      time == CASE smde.ext -> smde.ext_changed
                [] ~smde.ext /\ smde.stats -> smde.ispf_changed
                [] OTHER -> 0
      sign == IF sort_reverse THEN -1 ELSE 1
  IN  IF sort_time THEN - sign * time ELSE sign * smde.name

Stream ==
  CASE pc = "open"   -> "open"
    [] pc = "closed" -> "closed"
    [] pc \in {"failed", "undefined"} -> "failed"
    [] OTHER -> "new"

AbstractStream ==
  INSTANCE DirStream WITH
    Entry   <- 1 .. MaxEntries,
    None    <- 0,
    entries <- 1 .. Entries,
    key     <- [i \in 1 .. Entries |-> Key(i)],
    stream  <- Stream,
    left    <- IF pc = "open" THEN { mdir_mstat[i].id : i \in cur + 1 .. Len(mdir_mstat) } ELSE {}

\* Over all buffers, sort orders, ties and aliases, the list answers every entry
\* of the directory once and in order, then the end.
ImplementsDirStream == AbstractStream!Spec

\* The strings that an mstat points to are allocated, the array and the list share
\* none, and none is left when the list is closed.
StringsOwnedOnce ==
  /\ Strings(de_mstat) \cup Strings(mdir_mstat) \subseteq heap
  /\ pc = "open" => heap = Strings(mdir_mstat)
                    /\ Cardinality(heap) =
                         Cardinality({ x \in (DOMAIN mdir_mstat) \X Fields :
                                         mdir_mstat[x[1]].str[x[2]] # Null })
  /\ pc = "closed" => heap = {}

\* A list is never open for an empty directory, or for one with an alias that does
\* not tell its member (in a PDS); without these, and with storage, openmemdir
\* does not run into NULL pointers.
ListsWhatItCan ==
  LET unnamed == \E i \in 1 .. Entries : Directory[i].alias /\ ~Directory[i].pname
  IN  /\ pc = "undefined" => no_storage \/ Entries = 0 \/ unnamed
      /\ pc \in {"sort again", "open", "closed"} => Entries > 0 /\ ~unnamed
==============================================================================
