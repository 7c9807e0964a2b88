# A TLA+ verification project for asmdio

asmdio gives C programs on z/OS access to the members of partitioned datasets
(PDS, PDSE) through BPAM, and brings two programs built on it: `f2m` copies text
files to members, `m2f` copies members to files.  This directory holds TLA+
modules translated from that code, TLC configurations that check them on small
instances, and proofs that TLAPS checks.

## Inventory

| Component | Code | State | Operations | What makes it correct | What is hard |
|---|---|---|---|---|---|
| BPAM output | `services/src/bpamio.c` | handle: block, `bytes_used`, `block_size`, `memstart_ttr`, DCB | `open_pds_for_write`, `write_record`, `flush`, `close_pds` | records arrive once, in order, cut only as announced; blocks are well formed | WRITE/CHECK failures, cuts, short blocks, widths of lengths |
| BPAM input | `services/src/bpamio.c` | handle: block, cursor, `line_num` | `find_member`, `read_record`, `read_record_direct` | every record once, in order; the end is told | failures between blocks, reuse for the next member |
| Member directory | `services/src/bpamio.c`, `memdir.c`, `core/src/dio.c` | directory, change timestamps | STOW, STOW_IFF, DESERV, `writememdir_entry` | the entry leads to the member; no update is lost | another process between DESERV and STOW_IFF |
| ENQ/DEQ | `bpamio.c` (`enq_dataset_member`, `deq_dataset_member`) | enqueued names | ENQ, DEQ | mutual exclusion, release on every path | failing steps between ENQ and DEQ |
| Member list | `services/src/memdir.c` | array of `mstat` | `openmemdir`, `readmemdir`, `closememdir` | every entry once, sorted, aliases beside members | several DESERV buffers, ties in the order |
| Statistics, dates | `services/src/ispf.c`, `ztime.c`, `bpamio.c` | user data of an entry, `mstat` | `create_mstat`, `add_mem_stats`, `readmemdir_entry` and the conversions between packed Julian dates and `struct tm` | what was stored is told again | month ends, century byte, summer time, 16-bit counts |
| f2m | `sample/src/f2m.c`, `filemap.c`, `fsio.c` | table of files, two file buffers, one handle per dataset | read lines, write members, loop over extensions | a member holds the lines of its file | buffer boundaries, handle reused after failures |
| m2f | `sample/src/m2f.c`, `fsio.c` | output buffer | loop over members | a file holds the records of its member | buffer limit, read error taken for the end |
| Handles, DD names, storage | `bpamio.c`, `core/src/s99.c`, `iosvcs.c`, `ihadcb.c`, `mem.c` | storage above and below the line, DD, DCB, open dataset | open, close, SVC 99 | what is acquired is freed, or lost only where told | open that fails half way |
| Linkage | `core/src/dioa.s`, `mema.s`, `ihadcb.c`, ... | control blocks | OPEN, READ, WRITE, CHECK, NOTE, FIND, STOW | answers reach C unchanged | external |

The components interact by calls only; each program is one thread.  Concurrency
comes from other processes on the same dataset (ENQ, STOW_IFF timestamps).  What
does make the code hard is state that outlives one call: the block and the TTR in
a handle shared by all members of a dataset, the area and the cursor shared by
all members read, the buffer pair shared by consecutive lines, and failures at
any system call in between.  `PROJECT.json` lists these hazards at their lines.

## Modules

| Module | Models | Abstract specification |
|---|---|---|
| `BpamWrite` | output side of `bpamio.c` | `RecordLog` |
| `BpamRead` | input side of `bpamio.c` | `RecordCursor` |
| `RoundTrip` | a `BpamWrite` handle, then a `BpamRead` handle on the same dataset | |
| `LineReader` | `read_line`, `get_record`, `add_line` of `f2m.c` | |
| `F2MCopy` | `copy_files_to_members` down to `write_member` of `f2m.c`, over the handle of `BpamWrite` without its bytes | |
| `FileMap` | `filemap.c`, with the calls of `f2m.c` to it: the table of files by extension, names to members and datasets | |
| `MemberDirectory` | `write_member_dir_entry`, `enq_dataset_member`, `deq_dataset_member` of `bpamio.c`, in several programs at once | |
| `MemberStats` | what goes into an entry and comes out of it: `add_mem_stats`, `ztime.c`, `ispf.c`, `create_mstat`, `readmemdir_entry` | |
| `MemberList` | `openmemdir`, `readmemdir`, `closememdir` of `memdir.c` | `DirStream` |
| `M2FCopy` | `copy_members_to_files` of `m2f.c` and the output half of `fsio.c` | |
| `HandleLifecycle` | what every call of the library acquires, frees and loses | |
| `BpamWrite_proofs` | theorems about `BpamWrite` and `RoundTrip` | |
| `BpamRead_proofs` | theorems about `BpamRead` and `LineReader` | |
| `F2MCopy_proofs` | theorems about `F2MCopy` and `FileMap`, and that the table of one is what the other assumes | |
| `MemberDirectory_proofs` | theorems about `MemberDirectory` and `MemberStats` | |
| `MemberList_proofs`, `M2FCopy_proofs`, `HandleLifecycle_proofs` | theorems about the module of that name | |
| `Lemmas` | induction and recursion over natural numbers, and records that tile blocks, for the proofs | |
| `MC...` | small constants for the runs | |

The modules divide the code by question.  `FileMap` ends with the table of files that
`F2MCopy` starts from (its constant `Table`), `LineReader` says which records a file gives,
`BpamWrite` what becomes of them in a handle, `MemberDirectory` how the entry is stored
among other programs, `MemberStats` what it says.  On the way back `MemberList` gives the
members in their order, `BpamRead` the records of one, and `M2FCopy` makes files of them.
`HandleLifecycle` looks at all of these calls a second time, for what they hold.

Two components that share a module of proofs must not define a name twice, so the
specifications of `LineReader`, `FileMap` and `MemberStats` are called `LineSpec`, `MapSpec` and
`StatsSpec`, and that of `RoundTrip` `SpecBoth`; all others are `Spec`.

### How state and actions correspond to the code

* **BpamWrite.**  The variables are the fields of `FM_BPAMHandle` that the output
  side uses, with `dcbblksi` of the DCB.  A record in `block` is known by the
  length given, the bytes kept, its offset and its *stride*: what a reader adds to
  find the next record (the record descriptor word of V, `dcblrecl` of F).
  `write_record` is three actions: the record is buffered; the block is written
  and then the record is buffered; or WRITE/CHECK fail.  `flush` is three more.
  Integer widths matter at one place, `usr_rec_len`, and are kept there
  (`HalfWord`).  `medium`, `blocks` are the dataset: each WRITE with its CHECK
  either appends the whole block or nothing.  `opened_at` is history.
* **BpamRead.**  The member that FIND located is given as records with their block,
  offset and stride; the actions never use the list, only the block that READ
  brought into `area`, as `next_record` does.  Bytes that are no descriptor word
  give any value; the residual count after a failed CHECK is any value.
  `read` and `state` are history: what was answered, and why nothing was.
* **RoundTrip** adds the step between: directory entry, close, open for read.  Its
  invariant `WrittenIsWellFormed` is what `BpamRead` assumes of a member (`WellFormed`).
  `Publish` tests what the callers test, that `flush` succeeded, and stows `memstart_ttr` as it
  is: a member without records gets the 0 of a handle that has written no block.  Where that
  leads is the system's: FIND takes TTR 0 for the first block of the dataset, and the member ends at any
  end-of-file mark, even at once (`end_of_file`).
* **LineReader.**  A byte is its position in the file, so a record says exactly which
  bytes went into it.  `record_length` wraps to the largest `size_t` when the
  offset passes the data; that value is `Wrapped`.
* **F2MCopy.**  One action per step of `write_member` and of the loops around it.
  The handle keeps what the loops can disturb: the records in the block and
  `memstart_ttr`.  That a block may be full at any record is left open.
* **MemberDirectory.**  A program is known by the call it makes next (`pc`).  One action
  per answer of a service: the answer of STOW_IFF selects the paths to STOW_R and to
  DESERV with a second STOW_IFF.  Editors (`readwriterec.c`, ISPF) take the ENQ before
  and return without DEQ when the entry could not be written, so the ENQ stays until
  the end of the program; `f2m` takes none.  ENQ is made with RET=USE and never waits.
  `update_pdse_member_dir_entry` returns an `rc` it never set when DESERV fails: the
  answer is `"unset"` and the caller may take it for either.  The timestamp of an entry
  without extended attributes is read from the beginning of the entry: `Garbage`.
  `by` and `stowed` are history.  Where `init_desp` finds no storage, its NULL
  ends in DESERV, which is the failed DESERV of `DeservFailed`.

* **FileMap.**  A path is the extension of its directory, its base and its extension, as
  numbers in the order of `strcmp`.  `extension` takes the last `.` of the whole path and
  `map_file_to_member` the last one behind the last `/`; both are kept, and so is the key
  that results for a file without an extension in a directory with one.  `find` is a binary
  search and `add` an insertion, as in the code, so that an unsorted table would be seen.
* **MemberStats.**  The struct that a caller passes to `readmemdir_entry` keeps what the entry does not
  have, so the struct is an input: cleared (`Cleared`, as `openmemdir` passes it), never set
  (`Storage`, `readwriterec.c:188`), or the one of an earlier call.  An entry has extended
  attributes in a PDSE only, and its user data are those of ISPF, too short, or missing;
  `CopyExtendedAttributesIntoMstat` and `CopyIspfStatsIntoMstat` fill what they fill in the code, bits
  included.  A byte of packed decimal is its value, and every conversion works on it:
  `DToPd`, `PdToD`, `TmToPdjd`, `PdjdToTm`, `JToMmdd`, `MmddToJ` are the functions of
  `ztime.c`.  `j_to_mmdd` looks for a month that has more days than are left, although its
  days count from 1; what `mktime` makes of the day 0 is modelled after it.  `mktime` gets
  `tm_isdst` 0, so in summer an hour is added, and in the last hour of a day a day.
  Floating point in `tod_to_time` may give one second less where the product is whole.
  `told` and `truth` are history: what is true of the member, with `mine` for whether the
  statistics are the member's at all and not what a struct happened to hold.  `reading` is
  history too: what the entry had, and whether the struct was cleared.  A member stored without
  statistics counts as created that day with no lines, which is what `add_mem_stats` writes.
* **MemberList.**  The buffers of DESERV GET_ALL are sequences of entries; one action
  decodes one buffer.  A string is known by the array it was made for, the entry and the
  field, and `heap` says which are allocated.  `qsort` gives any order its comparison allows.
  `"undefined"` is a run into a NULL pointer or into a number that was never set: after it
  the model says no more.  Storage that fails once may be the array of members, a string or
  the list, and `no_storage` remembers it.
* **M2FCopy.**  A byte is known by the record or newline it belongs to, so a file says which
  records went into it whole, in part or not at all.  `find_member`, the reads, `write_file`
  and `open_file_create` may fail at any member.
* **HandleLifecycle.**  Each function is the sequence of its steps; a step names what it
  acquires and frees, whether it can fail and whether anybody looks.  The NULL of `init_desp`
  that `update_pdse_member_dir_entry` passes on (`bpamio.c:726`) ends the call as a failed DESERV does,
  with an `rc` never set: DESERV without a list is taken to fail.  Calls run one after the
  other on one handle.  `Complete` is what a handle consists of; `lost` counts, per resource,
  what nothing points to any more; `blind` says that SVC 99 was called with a NULL text unit
  (`s99.c:114` does not test for it).  That `free_mstat` and the lists are freed is in
  `MemberList`.

### What is external

DESERV, ENQ and DEQ are atomic: they and STOW order the updates of different
programs.  The system releases an ENQ when its program ends.
WRITE, READ, CHECK, NOTE, FIND, STOW, OPEN, CLOSE and `read(2)` are modelled by what
the code relies on.  A WRITE or its CHECK puts a whole block or none.  EODAD gives
1 and SYNAD 2 (`core/src/dioa.s`).  Datasets are F or V with a block that holds one
longest record.  Record format U is left out: its bits are those of F and V
together, so the code treats it as V.  Of the C library the modules take
`mktime`, `strcmp`, `qsort`, `glob` and `calloc(0)` as the standard describes them; of
the system the TOD clock and the entries that ISPF or a utility stores.

## Runs

| Run | Shows | Bounds |
|---|---|---|
| `bpam_write` | blocks never overrun, tile, stay in order; TTR of the first block; `ImplementsLog` | F 3/6, F 2/7, V 8/12, V 8/21 (`lrecl`/`blksi`): blocks of one to five records, exact and inexact fits; lengths 0, short, exact, one too long, longer than a block; 4 records |
| `bpam_read` | `ImplementsCursor`, cursor in the right block, loops end | full, short, single-record and empty blocks of members, empty records; buffers of 1, 3 and any length; `MaxReads` 8 |
| `round_trip` | what is written is readable and comes back as kept; where a member without records leads | F 2/5, V 7/16; lengths 0, 1, 5; 3 records in up to 3 blocks, of which earlier handles may have written any |
| `line_reader` | which files are copied exactly; the loop ends; V cuts are reported | all placements of newlines in files of up to 10 bytes, buffers of 3: up to four reads; lines cut in either buffer |
| `f2m_copy` | copied members are complete, files kept apart, files tried, the copy ends | two extensions with two and one files, up to 2 lines each, both modes |
| `file_map` | the table has every file once, in order; when two files go to one member | all lists of up to 4 of 13 paths: case of base and extension, no extension, empty extension, empty base, `.` in the directory, too long, no dataset |
| `member_directory` | ENQ held on every path, no update lost in a PDSE, answers are true, all ENQs end | two editors and f2m, two members (one editor writes both, all write the first), PDS and PDSE, any members there before with or without extended attributes |
| `member_stats` | which dates, times, counts and bits a program is told again, however often the entry is read and stored | last day of every month of 2000, days around the ends of 1999 and of February 2001, stored again at the end of 2000 or in 2024; with and without summer time; 1 and 70000 lines; PDS and PDSE; entries of other programs with full, short and no user data; structs cleared, passed again or never set; 2 reads |
| `member_list` | `ImplementsDirStream`, owners of strings, when a list can be made | directories of up to 3 entries of 5 kinds in one or two buffers, of which the last may be empty, 4 sort orders, equal names and times, failing storage |
| `m2f_copy` | a file is its member exactly if it fits; which members are copied, what stays open | up to 3 of 7 kinds of members, a buffer of 4 bytes filled exactly, by one too many, and with holes; files that exist; every call failing |
| `handle_lifecycle` | handles are whole, nothing is freed twice, what is lost is told, what success leaks | 4 calls one after the other in all orders, every step failing |

Where a statement of the repository does not hold, one run shows the counterexample:

| Run | Statement | What the code does |
|---|---|---|
| `f2m_copy_entry` | `f2m.c:308` the TTR is established per member | all members of a handle get the TTR of the first |

`memstart_ttr_known` (`bpamio.c:285`) is set once and never reset.  The theorem `MemStart`
of `BpamWrite` says the same of the handle: its TTR is that of the *first* block.

### What the passing runs say about the code

Where the code does something unexpected, a property states its exact extent, so
that the run passes and a change in either direction would be seen.

* `CopiedIffFits`: a file is copied line by line if and only if no newline is the first
  byte of a read, unless it ends the file, and every read but the first and the last has a
  newline.  `Expected` also says that a file ending with a newline is copied with one more,
  empty record.  (`sample/test/recordloss` says that no records are lost across blocks;
  an empty line at offset 0 looks to `f2m.c:153` like a buffer that was never filled.)
* `CutIsReportedV` is about V datasets only: on F the line is cut at `f2m.c:258` before
  `write_record` could notice, so the message of `f2m.c:352` does not come.
* `EveryFileTried`: after a failure the rest of an extension is given up, as
  `f2m.c:383` announces, but with one dataset the next extension is copied to it all the
  same (`f2m.c:453`).  `FilesKeptApart`: only then, and only after a failed flush, do
  records of two files share a block.
* `CreatedIsKept`: December 31 is told as the one of the year before, each time an entry is read
  and stored, since `j_to_mmdd` (`ztime.c:51`) compares a day that counts from 1 as if it
  counted from 0.  This contradicts `memdir.h:47` ("time member created") and the comment of
  `pdjd_to_tm` (`ztime.c:123`), by which "1st day is the 1st day of the month": for the last day
  of a month it answers day 0 of the next, which `mktime` puts right, and for December 31 day 0 of
  January of the same year.
* `ChangedIsTold`: a change on December 31 is told a year early, one in another century than the
  creation a hundred years early (`ispf.c:37` takes the century of the creation), and
  in summer the time of a change is an hour late (`tm_isdst` is 0 at `memdir.c:175`).  This
  contradicts `memdir.h:48` ("time member modified") and, for the day, `ztime.c:123` again.
  All other days and times come back to the second.
* `StatsAreKept`: `memdir.h:24` and `memdir.h:26` say that the bits tell whether a member has
  statistics and extended attributes, lines 33 and 40 that they tell which fields are valid.
  `smde_to_mstat` (`memdir.c:212`, `:224`) sets them where the entry has the data and does not reset them
  where it has not (but for user data that are too short).  So this holds for a struct that
  the caller has cleared; `openmemdir` clears it, `readwriterec.c:188` and `:261` pass one that was never
  set, or that an earlier call has filled, and print `ext_changed` without asking.  The property says what holds
  for any struct and what for a cleared one; for the others the bits say nothing, and what they
  hold may be stored again as the statistics of the member (`mine`, which guards the dates).
* `ReadBack`: a member with records is read back as it was kept.  One without is not: neither
  `write_member` of `readwriterec.c:69` nor of `f2m.c:328` sees that no block was written, and
  `bpamio.c:756` stows the TTR in the handle.  A handle that has written no block has 0, which
  leads a reader to the first records of the dataset, those of other members, or to none; one that
  has gives the TTR of its first block (see `f2m_copy_entry`).  An empty file becomes such a member.
* `OneFilePerMember`: with one dataset per extension nobody looks for two files of one
  member; with one dataset f2m also stops for a file that it would not copy.
* `FileIsMember`: `buffer_write` drops a record or a newline that does not fit and goes on, so a
  shorter one may follow the gap; the copy is exact if and only if the member fits.
  A read that fails ends the file like the end of the member.
* `EveryMemberTried`: a file that cannot be created ends m2f with the handle open; a member
  that is not found leaves its file open.
* `SuccessLeaks`: `close_pds` frees the handle and loses DCB, DCBE, DECB, block and the control
  blocks of OPEN and CLOSE each time.  `bpamio.h:90-91` promises that it will "free any allocated storage
  associated with the handle", lines 31 and 38 that it frees "the underlying resources
  associated with the dataset".  The property states what is lost, so that neither more
  nor, when that is mended, less goes unnoticed.
* `HandleIsComplete`, `LostIsTold`, `FreesWhatItHas`: `close_pds` loses the DD for good if SVC 99
  fails, since the handle is freed too; STOW loses its lists; `bpamio.c:776` gives to `free` what `MALLOC24` had
  obtained by STORAGE OBTAIN.  Calls that find, read entries and enqueue lose nothing.
* `ListsWhatItCan`: `openmemdir` cannot list an empty directory, nor one of a PDS with an alias.

Four more disagreements have no run.  `copy_record_to_block` "returns 'truncated'"
(`bpamio.c:307`), but takes the length as an `unsigned short`: of a record of 65536 bytes or
more the low 16 bits are kept and no cut is told (lengths of the runs are below that, and
`Refinement` assumes it).  After the end a further `read_record_direct` answers the last
block again (`bpamio.c:168` resets the cursor), where `bpamio.h:62` promises a negative
value; the readers of `BpamRead` stop at the first negative answer, as the programs do.
`write_record` answers 0 or 1, where `bpamio.h:68` promises the number of bytes written, and
`record_length` answers `dcblrecl`, which counts the descriptor word of a V record, where
line 82 says that it does not.

The bounds are enough because the code looks at no more than one block, one
buffer pair and one file at a time: two of each, full and partial, meet every
branch.  Three programs on one member are two that ENQ and one that does not; a second
member is what an ENQ could be taken along to.  Three entries are what a tie needs to be out of order with
a third, in one buffer and across two; four files make a table of several extensions with
several files.  Four calls are open, two calls on the handle and close, or a call that failed
and one that meets what it left.  The dates of a year differ for the code only at the ends of
months and in leap years.  `MaxRecords`, `MaxReads`, `MaxSize`, `MaxLines`,
`MaxMembers`, `MaxEntries`, `MaxBuffers`, `MaxPaths` and `MaxCalls` bound the models only;
`MaxTextFileSize` is the size of the buffer in the code, made small.

### Fairness

`BpamWrite` and `RoundTrip` have none: callers may stop.  `BpamRead` assumes weak
fairness of reading, since the callers' loops (`m2f.c:174`, `readwriterec.c:40`)
call again until they get a negative answer.  `LineReader` and `F2MCopy` assume it
of their next-state relation: one thread that waits for nothing but the calls it
makes, each of which returns.  `MemberDirectory` assumes it of each program for the same
reason: ENQ with RET=USE answers at once.  The other modules have safety properties only and
assume none: `M2FCopy`, `MemberList`, `FileMap` and `HandleLifecycle` walk finite lists
forward, and a program may stop after any call.

## Proofs

Every invariant, every action property and every refinement that a passing run checks is also a
theorem, for all values of the constants that the assumptions below allow.

`BpamWrite_proofs` proves, for every set of datasets, every set of record lengths
and every bound allowed by the assumptions of `BpamWrite`, that `Spec` implies
`[]TypeOK`, `[]BlockFits`, `[]BlockChain`, `[]MediumChain`, `[]MediumOrder` and
`[]MemStart`, and, for lengths below 2^16, `ImplementsLog`.

* `IInv` is `TypeOK`, `HandleState`, `BlockFits` and `BlockChain`.  `BlockFits` is not
  inductive: that a record fits is tested with its length before the cut and
  without the block descriptor word, so one needs that an open handle has the
  dataset's block length (`HandleState`), and that an empty block has no bytes
  (`BlockChain`), to conclude that the cut makes up for both.
* `MediumInv` joins the two invariants of the dataset; a step that writes the block
  turns `BlockChain` of the block into `MediumChain` of its copy.
* `StartInv` is `MemStart` with the bound `opened_at <= Len(blocks)`.
* `Refinement` maps each action to one of `RecordLog`, in which only `Close` gives up
  what is buffered, and needs `IInv` only to see that an empty block is logically
  empty too.

The same module proves, of a `BpamWrite` handle followed by a `BpamRead` handle
(`SpecBoth`), `[]WrittenIsWellFormed` and `[]ReadBack`.

* `Written` is what FIND makes of the TTR in the entry.  `PublishedInv` has the two cases: a member
  with blocks begins at `opened_at` and ends with the last block, one without has TTR 0, which leads
  to the beginning of the dataset and an end-of-file mark anywhere.  `WhereItLeads` says that
  either way it begins and ends between two blocks, and all that is said of the layout
  needs no more.  Only what is read differs: `MemberIsRead`, `OthersAreRead`.
* `StrideInv` says that the stride of a record on the dataset is what `next_record` will find
  in its descriptor word.  `Division` says that TTRs never fall, so that the records behind
  `opened_at` are the end of `medium`; `WrittenFrom` is the member that results.
  `MediumChain` and `MediumOrder` of its records are then what `WellFormed` asks for.
* `memstart_ttr` goes with the handle; `PublishedInv` keeps what `MemStart` said of it.
  `WriterInv` joins this and the invariants of the handle.
* `ReaderInv` is the invariant of `BpamRead_proofs`, stated again for the member that was
  written: that module's theorem is about constant datasets, while here the member is the state
  the writer left.  `BothInv` joins the two, and `ReadBack` follows from it when the reader has
  come to the end.

`MemberDirectory_proofs` proves, for every set of programs, editors and members, that
`Spec` implies `[]TypeOK`, `[]HeldWhileUpdating`, `[]TimestampIsFresh`, `[]AnswerIsTrue`
and `NothingOverwrittenUnseen`.

* `IInv` adds `PathIsRight` to the invariants: the answers that led to a call still hold
  when it is made, since an entry that is there stays there and only editors ENQ.
  Without it DEQ of a program that is no editor would release the ENQ of another one, and
  DESERV could be asked for an entry that is not there.
* `HeldWhileUpdating` says of `holder` what it allows and what it demands, and is
  inductive with `PathIsRight`; `TimestampIsFresh` follows from it, because two editors
  between ENQ and DEQ of one member would both be its holder.
* `NothingOverwrittenUnseen` needs `PathIsRight` to exclude STOW_R on a PDSE.
* `AnswerIsTrue` needs `NotYetStowed`: a program on its way has not stowed yet.

The same module proves `[]CreatedIsKept`, `[]ChangedIsTold` and `[]StatsAreKept` of
`MemberStats`, for any dates, times and counts of lines and any number of reads, with the
exceptions that these properties state: December 31, another century, the hour in summer, and
the struct that nobody has cleared.

* `HistoryInv` says that an entry with user data is the packed form of a history (`PackedAs`): the
  date of its creation, one December 31 earlier for each time it was read and stored again, the
  last change and the lines.  What a program is told is the same history unpacked (`ToldAs`).
  Both hold as long as the statistics are the member's (`mine`): they are not when a struct that
  was never set was stored, and then nothing is said of dates and lines.
* `ReadAs` is what holds whatever struct was passed: the timestamp of extended attributes, and the
  bits of a struct that was cleared.  `Filled` says which fields `SmdeToMstat` sets for each
  kind of entry and which it leaves; for it a struct must have just its fields (`IsStruct`).
* Each conversion gets a lemma, for every year and every day of it: packed decimals by quotient
  and rest, `j_to_mmdd` by walking through the months.  `DaysBefore` is a recursive function,
  so the days before a month are computed for each of the twelve.
* A day is lost only on the last one of a year; `ChangedAs` says when the century of the creation
  is also that of the change.  The day that `mktime` adds in summer is in `Mktime` itself.

`F2MCopy_proofs` proves, for every table of files and every number of lines, that `Spec`
implies `[]TypeOK`, `[]EveryFileTried`, `[]CopiedIsComplete` and `[]FilesKeptApart`.

* `LoopInv` and `PassedInv` carry `EveryFileTried`: a file the loops may still come to has no
  outcome, and one that they have passed without an outcome has a failure of its extension
  before it, or a dataset that was never opened.  The outcomes alone are not inductive: they
  do not say what happens to the files behind the current one.
* `BlockInv` says whose records are in the block: those of the file being written, at its
  end, before them only records of files whose flush failed, and these only where one dataset
  takes all files, or until `close_pds` gives them up.  From it follow `FilesKeptApart` and, when the last flush of a file
  succeeds, that its records go to the dataset together.
* `MediumInv` keeps records of a file that is still to come off its dataset, and `LinesInv`
  looks at dataset and block as one log: as long as nothing was truncated, its last `line`
  records are the lines of the file, in order, and no other record is.  That is what
  `CopiedIsComplete` says at the moment of STOW; afterwards only other files write.

The same module proves `[]TableIsRight` and `[]OneFilePerMember` of `FileMap`, for any list of
paths.

* The binary search finds a key in a table `InOrder`, or the place for it; `add` keeps the
  order, and one pass over the files makes the count of each extension the number of files
  seen with it (`Counted`, a cardinality), so that the second pass never finds an entry full and
  leaves each with all its files in the order of the list (`Filed`).  `PassInv` says this of
  every point of the two passes.
* That `qsort` and a look at neighbours finds two files of one name is the same argument as in
  `MemberList`: equal names of an arrangement in order are next to each other somewhere.
  `TargetInv` is what the answer means for the copy.
* `TheTableIsCopied`: when the table is filled it satisfies `IsFileTable`, which is what `F2MCopy`
  assumes of its constant `Table`.  So the theorems about copying hold of each table that
  `filemap.c` can make.

`M2FCopy_proofs` proves, for any list of members, any lengths of records and any size of the
buffer, `[]EveryMemberTried` and `[]FileIsMember`.

* `ControlInv` divides the members into those before the current one, which are done with,
  those behind it, which are untouched, and the current one, of which `pc` says how far it is.
* `BufferInv` and `FilesInv` are the same statement of the buffer and of what was written from
  it: after k items (records and newlines) each of the first k is in the buffer whole, or not
  at all because there was no room.  "No room" is said of the final length of the buffer, which
  only grows; so it stays true without remembering when the item came.
* That a file is its member *exactly if* the member fits needs the length of the first k items
  to grow with k (`Upto`), and a count of bytes in a sequence that grows at its end (`Count`).

`BpamRead_proofs` proves, for every dataset, member and buffer, `[]CursorInBlock` and
`ImplementsCursor`.  `IInv` has the types and, while a member is read, that the handle stands at
the record answered last, in the block that was read for it (`ReadInv`, `PlaceInv`).  The
cursor compares offsets with `bytes_used`; that this finds the record that follows in the
*list* of records rests on the lemmas about `Tiled`: records that tile blocks lie in them in the
order of the list, so that the next one begins behind the current one or at the head of the
next block, and nowhere in between.

The same module proves `[]BuffersTypeOK`, `[]CopiedIffFits` and `[]CutIsReportedV` of
`LineReader`, for any file, any placement of newlines and any size of a buffer from 2 on.

* `BuffersInv`: every read begins at a multiple of `REC_LEN` or at the end (`AtRead`), and the
  offset of a buffer exceeds its data by at most the one newline behind a record.
* `CopiedIffFits` compares the records with the lines of a file as a whole; half way through, a
  file that does not fit may still look right.  `CopiedInv` therefore sorts what may be the case
  between two calls of `read_line` into seven (`BetweenReads`).  Three belong to a file that has
  fitted so far: nothing was read (`Fresh`), the lines up to a newline in the buffer are copied
  (`Running`), all are (`Ended`).  The other four say why the copy cannot come right any more: the
  end of the file comes or a length wraps (`Doomed`), of each read only the first newline was
  taken (`OnlyNewlines`), a byte of a line was read over (`Lost`), a record is already
  wrong (`Wrong`).  Each reading leads from one of the seven to one of them, and one lemma for each of
  the four shows that it stays so.
* `FitsUpTo` is `Fits` for the bytes read, and `Prefix` says which lines are copied; that the n-th
  record is the n-th line needs the lines counted (as cardinalities), since the reference in
  `Expected` numbers them.
* `CutInv`: the message comes exactly if a record is longer than `Capacity`.

`HandleLifecycle_proofs` proves, for any number of calls, `[]HandleIsComplete`,
`[]FreesWhatItHas`, `[]LostIsTold`, `[]SuccessLeaks` and `[]TypeOK`.  The model runs each function
of the library as a list of steps, any of which may fail.  The argument is Hoare's:

* `Takes(w, x, s, y)` says when a step `s` may be run on the holding `x` (what the call has got and
  what the handle has) and what it leaves; `Leads` extends it to lists of steps.  One
  lemma per function shows that its list leads from what it starts with (`Base`) to what it
  has to come to (`Goal`), and `StepsLead` collects them.
* `PathInv`, the heart of `IInv`, says that the steps *left* lead from what is held *now* to the
  goal.  Each step hands on the tail of the list; a failure must find what it gives back.
* A text unit is taken without a test, so what is held may lack what the steps believe to
  have.  `PathInv` therefore speaks of an ideal holding, which is the real one but for a DD that a
  failed text unit left unallocated (`Like`, `BlindInv`).
* `QuietInv` (only open and `openmemdir` acquire a DD or an open dataset) and `LostInv` make
  `LostIsTold` inductive.

`MemberList_proofs` proves, for any number of entries and buffers, every order of sorting and every
order that `qsort` may choose, `[]StringsOwnedOnce`, `[]ListsWhatItCan` and `ImplementsDirStream`.

* `Listed` is what every step keeps: the array, and later the list, tell of each entry of the
  directory exactly once (`Lists` with an order of the entries as witness), and each string was
  made for this array and this entry.  So the strings of the array and of the list are two
  sets (`Made`) that share nothing, and `free_mstat` takes away one of them.
* While buffers are walked (`WalkInv`) the array has the entries of those behind, under the
  numbers they have in the whole directory (`Walked`).
* `qsort` answers a rearrangement in which neighbours are in order.  That no entry is lost by it is
  the pigeonhole principle (`OrderIsOnto`), that neighbours in order make a list in order is
  an induction (`Rising`), and that the four comparisons are one comparison of keys is
  `CmpMemIsKey`.  These three are what the refinement rests on; only the last sort counts.

`Lemmas` has what several of these proofs need.  The library's induction takes an operator, which
the provers cannot instantiate; `SmallestNat`, `UpTo` and `Recursion` take a set instead, and rest
on finite sets being well-founded under strict inclusion.  `Recursion` says that a function
exists that begins with a given value and takes a given step at each number of `1 .. N`, so
that a recursive function of a model is what its definition says of it.  `Rising` makes an
order of neighbours an order of the whole.  `TilesInOrder`, `InBlock`, `OnePlace` and `Following`
are about records that tile blocks, for the reader of any member and for the one of the member
just written.

Assumptions:

* `DatasetAssumption`: the system allocates no dataset whose block cannot hold a longest record.
* `LengthAssumption`: the length plus four does not wrap in 16 bits.  `Refinement` alone assumes
  that lengths are below 2^16.
* `ReaderAssumption`: members are what a writer leaves, records that tile the blocks of the
  member.  `WrittenMembersAreWellFormed` proves it of what `BpamWrite` writes.
* `TableAssumption`: a table is a sequence of extensions with a sequence of files each, and no
  file is in it twice.  `TheTableIsCopied` proves it of what `filemap.c` builds.  The table has an
  extension: where no file has one, f2m copies nothing.
* `PathAssumption`: paths are made of the numbers that stand for names, as many as there are `Bases`,
  and `Upper` maps these.
* `BufferAssumption`: a buffer has at least two bytes, and a record holds no more data than its
  length.
* `StatsAssumption`: dates and times exist, and no date is before 1901, also when it loses a year
  at each of `MaxReads` reads.  The library's years are those of `struct tm`, from 1900 on.
* `ProgramAssumption`: editors are programs, and `None` is no program, member or entry.
* `M2FAssumption`: kinds of members have an alias flag and lengths of records, the buffer a size.
* `EntriesAssumption`: entries have names, times and flags.
* `BoundAssumption` and `CallsAssumption`: bounds are natural numbers.

TLC evaluates them in every run of the module.

Only model-checked: liveness (`LoopsEnd`, `EveryFileEnds`, `CopyEnds`, `EveryProgramEnds`), which is
beyond TLAPS, as is `ENABLED`.  The provers have no backend for it here; the runs check it
under the fairness described above.

## Plan

All components that hold state are modelled, and what the runs check is proved but for liveness.
What could follow extends the models, each where "Not modelled" below draws the line: records
of 65536 bytes and more in `Refinement`, a caller that goes on reading after the end, and two
programs that write blocks into one dataset.  The last needs a model of the access method that the
repository does not have.

## Not modelled

* Option parsing, listings and messages (`mlsx.c` but for its loop over the list, `fmopts.c`,
  `msg.c`): no state of a copy depends on them.
* Linkage stubs (`core/src/*.s`, `call31.c`, most of `dio.c`): assembler that passes control
  blocks on.  The abend handler that OPEN sets (`dio.c:107`) keeps a jump buffer of a
  function that has returned; the modules know of system services what they answer, and
  an abend is no answer.
* Assembler samples (`asmxmp`) and the performance driver (`perf`): programs of their own.
* Records of 65536 bytes and more, and reads after the end, as described above.
* Two programs that write blocks into one dataset at once: the directory is modelled for
  several programs, the blocks for one.  What NOTE and WRITE of two of them do to each other
  is the access method's.
