------------------------------- MODULE FileMap -------------------------------
(***************************************************************************)
(* sample/src/filemap.c as f2m's main and copy_files_to_members use it:    *)
(* a first pass over the glob_t counts the files of each extension in a    *)
(* table sorted by extension, a second one fills the table, and where one  *)
(* dataset takes all files two that map to one member stop f2m.  In the    *)
(* end target holds the member for which each file of the table is copied, *)
(* and to which dataset.                                                   *)
(*                                                                         *)
(* A path ends in /BASE.EXT; base and extension are numbers in the order   *)
(* of strcmp, with 0 for the empty string.                                 *)
(***************************************************************************)
EXTENDS Integers, Sequences, SequencesExt

CONSTANTS
  Bases,       \* how many base names there are: they are 0 .. Bases - 1
  Paths,       \* [dir_ext, base, ext]: numbers, or NoDot for the extensions
  Upper,       \* uppercase, on bases and extensions
  TooLong,     \* the bases with more than MEM_MAX characters
  NoDataset,   \* the keys that are too long behind the dataset pattern
  MaxPaths     \* bound: files in the glob_t

NoDot == -1    \* no '.' in this part of the path
NULL  == -1

ASSUME PathAssumption ==
  /\ Bases \in Nat
  /\ Paths \subseteq [dir_ext : Nat \cup {NoDot}, base : 0 .. Bases - 1, ext : Nat \cup {NoDot}]
  /\ Upper \in [DOMAIN Upper -> Nat]
  /\ \A p \in Paths : {p.base, p.ext, p.dir_ext} \ {NoDot} \subseteq DOMAIN Upper
  /\ MaxPaths \in Nat

VARIABLES
  gl_pathv,    \* what expand_file_patterns left in the glob_t
  opts_map,    \* opts->map
  stage,       \* create_table, fill_table, or how f2m ends
  looked,      \* files looked at in the pass
  entry,       \* FM_Table: entries [key, count, values]
  target,      \* per file of the table: dataset and member
  duplicates   \* why check_for_duplicate_members has answered 1, or "none"

mapVars == <<gl_pathv, opts_map, stage, looked, entry, target, duplicates>>

FilesFound == DOMAIN gl_pathv

------------------------------------------------------------------------------
(* Names                                                                    *)

\* strrchr finds the last '.' of the path: for a file without an extension that is
\* one of a directory, and the extension goes on with '/' and the name.  As a
\* string that lies between this extension and the next.
Extension(path) ==
  IF path.ext # NoDot THEN (Bases + 1) * path.ext
  ELSE IF path.dir_ext # NoDot THEN (Bases + 1) * path.dir_ext + path.base + 1
  ELSE NULL

HasExtension(path) == Extension(path) \notin {NULL, 0}

\* Mutant: the names are compared as they are.
MutMapFileToMember(path) ==
  IF path.base \in TooLong \/ (path.base = 0 /\ path.ext = NoDot) THEN NULL ELSE path.base

\* map_file_to_member: here a '.' before the last '/' does not count.  A path that
\* ends in '/' has no member.
MapFileToMember(path) ==
  IF path.base \in TooLong \/ (path.base = 0 /\ path.ext = NoDot) THEN NULL ELSE Upper[path.base]

\* map_ext_to_dataset
MapExtToDataset(key) ==
  LET ext  == key \div (Bases + 1)
      rest == key % (Bases + 1)
  IN  IF key \in NoDataset THEN NULL
      ELSE (Bases + 1) * Upper[ext] + (IF rest = 0 THEN 0 ELSE Upper[rest - 1] + 1)

------------------------------------------------------------------------------
(* The table                                                                *)

\* find: bsearch needs the table in the order of the keys.  The index, or 0.
Find(key, table) ==
  LET search[b \in (1 .. Len(table) + 1) \X (0 .. Len(table))] ==
        LET mid == (b[1] + b[2]) \div 2
        IN  IF b[1] > b[2] THEN 0
            ELSE IF table[mid].key = key THEN mid
            ELSE IF table[mid].key < key THEN search[<<mid + 1, b[2]>>]
            ELSE search[<<b[1], mid - 1>>]
  IN  search[<<1, Len(table)>>]

\* Mutant: the entry goes to the end.
MutAdd(new, table) == Append(table, new)

\* add: in front of the first entry with a greater key.
Add(new, table) ==
  LET at == CHOOSE k \in 1 .. Len(table) + 1 :
              /\ k <= Len(table) => table[k].key > new.key
              /\ \A j \in 1 .. k - 1 : table[j].key <= new.key
  IN  InsertAt(table, at, new)

\* allocate_table fails, as calloc does also where there is no file.
CreateTableFails ==
  /\ stage = "create"
  /\ looked = 0
  /\ stage' = "exit"
  /\ UNCHANGED <<gl_pathv, opts_map, looked, entry, target, duplicates>>

\* create_table: one file.
CountFile ==
  /\ stage = "create"
  /\ looked < Len(gl_pathv)
  /\ looked' = looked + 1
  /\ LET path == gl_pathv[looked + 1]
         ext  == Extension(path)
         e    == Find(ext, entry)
     IN  entry' = IF ~HasExtension(path) THEN entry
                  ELSE IF e = 0 THEN Add([key |-> ext, count |-> 1, values |-> <<>>], entry)
                  ELSE [entry EXCEPT ![e].count = @ + 1]
  /\ UNCHANGED <<gl_pathv, opts_map, stage, target, duplicates>>

TableCreated ==
  /\ stage = "create"
  /\ looked = Len(gl_pathv)
  /\ looked' = 0
  /\ stage' = "fill"
  /\ UNCHANGED <<gl_pathv, opts_map, entry, target, duplicates>>

\* No storage for the files of an entry.
FillTableFails ==
  /\ stage = "fill"
  /\ looked = 0
  /\ entry # <<>>
  /\ stage' = "exit"
  /\ UNCHANGED <<gl_pathv, opts_map, looked, entry, target, duplicates>>

\* fill_table: one file.
FillFile ==
  /\ stage = "fill"
  /\ looked < Len(gl_pathv)
  /\ looked' = looked + 1
  /\ LET path == gl_pathv[looked + 1]
         e    == Find(Extension(path), entry)
     IN  entry' = IF ~HasExtension(path) \/ e = 0 THEN entry
                  ELSE [entry EXCEPT ![e].values = Append(@, looked + 1)]
  /\ UNCHANGED <<gl_pathv, opts_map, stage, target, duplicates>>

TableFilled ==
  /\ stage = "fill"
  /\ looked = Len(gl_pathv)
  /\ stage' = "filled"
  /\ UNCHANGED <<gl_pathv, opts_map, looked, entry, target, duplicates>>

------------------------------------------------------------------------------
(* copy_files_to_members                                                    *)

\* check_for_duplicate_members sorts the files that have a member by it and
\* compares neighbours; it takes a lack of storage, or of files, for a duplicate.
CheckForDuplicateMembers ==
  LET member(f) == MapFileToMember(gl_pathv[f])
      named     == { f \in FilesFound : member(f) # NULL }
  IN  \/ \E sorted \in SetToSeqs(named) :
           /\ \A k \in 1 .. Len(sorted) - 1 : member(sorted[k]) <= member(sorted[k + 1])
           /\ duplicates' = IF \E k \in 1 .. Len(sorted) - 1 :
                                    member(sorted[k]) = member(sorted[k + 1])
                              THEN "found" ELSE "none"
      \/ duplicates' = "no storage"

\* Copies the files that have a member, of the extensions that have a dataset.
Targets ==
  LET dataset(e) == IF opts_map THEN MapExtToDataset(entry[e].key) ELSE 0
      copied == { p \in (DOMAIN entry) \X FilesFound :
                    /\ p[2] \in ToSet(entry[p[1]].values)
                    /\ dataset(p[1]) # NULL
                    /\ MapFileToMember(gl_pathv[p[2]]) # NULL }
  IN  { [file |-> p[2], dataset |-> dataset(p[1]), member |-> MapFileToMember(gl_pathv[p[2]])]
          : p \in copied }

CopyToMultipleDatasets ==
  /\ stage = "filled"
  /\ opts_map
  /\ target' = Targets
  /\ stage' = "copied"
  /\ UNCHANGED <<gl_pathv, opts_map, looked, entry, duplicates>>

CopyToOneDataset ==
  /\ stage = "filled"
  /\ ~opts_map
  /\ CheckForDuplicateMembers
  /\ IF duplicates' = "none" THEN target' = Targets /\ stage' = "copied"
                             ELSE stage' = "refused" /\ UNCHANGED target
  /\ UNCHANGED <<gl_pathv, opts_map, looked, entry>>

Ended == stage \in {"exit", "refused", "copied"} /\ UNCHANGED mapVars

\* Patterns may overlap: a path may come twice.
MapInit ==
  /\ gl_pathv \in UNION { [1 .. n -> Paths] : n \in 0 .. MaxPaths }
  /\ opts_map \in BOOLEAN
  /\ stage = "create"
  /\ looked = 0
  /\ entry = <<>>
  /\ target = {}
  /\ duplicates = "none"

MapNext ==
  \/ CreateTableFails \/ CountFile \/ TableCreated
  \/ FillTableFails \/ FillFile \/ TableFilled
  \/ CopyToMultipleDatasets \/ CopyToOneDataset
  \/ Ended

MapSpec == MapInit /\ [][MapNext]_mapVars

------------------------------------------------------------------------------
(* Properties                                                               *)

\* No entry is put behind the storage of the table, and no file behind that of
\* its entry; a filled table has each extension once, in order, and under it the
\* files with it in the order of the glob_t.
TableIsRight ==
  /\ Len(entry) <= Len(gl_pathv)
  /\ \A e \in DOMAIN entry : Len(entry[e].values) <= entry[e].count
  /\ stage \in {"filled", "refused", "copied"} =>
       /\ \A e, d \in DOMAIN entry : e < d => entry[e].key < entry[d].key
       /\ \A e \in DOMAIN entry :
            /\ entry[e].count = Len(entry[e].values)
            /\ ToSet(entry[e].values) =
                 { f \in FilesFound : Extension(gl_pathv[f]) = entry[e].key }
            /\ \A k, l \in DOMAIN entry[e].values :
                 k < l => entry[e].values[k] < entry[e].values[l]
       /\ \A f \in FilesFound : HasExtension(gl_pathv[f]) =>
            \E e \in DOMAIN entry : entry[e].key = Extension(gl_pathv[f])

\* Two files are copied to one member of one dataset only where each extension
\* has its dataset: there nobody looks for files that differ in the directory, or
\* in the case of name or extension.  With one dataset f2m stops if, and but for
\* storage only if, two names agree but for case and extension, also where one has
\* no extension and would not be copied.
OneFilePerMember ==
  LET SameMember(f, g) == /\ f # g
                          /\ MapFileToMember(gl_pathv[f]) # NULL
                          /\ MapFileToMember(gl_pathv[g]) # NULL
                          /\ Upper[gl_pathv[f].base] = Upper[gl_pathv[g].base]
      agree == \E f, g \in FilesFound : SameMember(f, g)
  IN  /\ \A s, t \in target : s # t /\ s.dataset = t.dataset /\ s.member = t.member => opts_map
      /\ stage = "copied" /\ ~opts_map => ~agree
      /\ duplicates = "found" => agree
      /\ \A t \in target : HasExtension(gl_pathv[t.file])
==============================================================================
