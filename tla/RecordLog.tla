------------------------------ MODULE RecordLog ------------------------------
(***************************************************************************)
(* What services/include/bpamio.h promises the caller of write_record,     *)
(* flush and close_pds, with blocks, headers and the device left out.      *)
(* Records are accepted in call order into a buffer; the buffer reaches    *)
(* the dataset as a whole, either when a later record is accepted or on    *)
(* flush.  A record longer than the dataset allows is cut to the capacity  *)
(* of a record, and the reply says so.  A call that fails leaves every     *)
(* record accepted earlier where it was.  Closing the handle forgets what  *)
(* was not flushed.                                                        *)
(***************************************************************************)
EXTENDS Naturals, Sequences

CONSTANT Lens          \* the record lengths a caller passes

VARIABLES capacity,    \* data bytes one record of the dataset can hold
          stored,      \* records that reached the dataset
          pending,     \* records accepted but still buffered
          open,        \* does the caller have a handle?
          reply        \* the answer to the last call

lvars == <<capacity, stored, pending, open, reply>>

Replies == {"ok", "truncated", "failed"}

LogRecord == [given : Nat, kept : Nat]

\* A record keeps its leading bytes, up to the capacity.
Logged(len) == [given |-> len,
                kept  |-> IF len > capacity THEN capacity ELSE len]

ReplyTo(len) == IF len > capacity THEN "truncated" ELSE "ok"

Init ==
  /\ capacity \in Nat
  /\ stored = <<>>
  /\ pending = <<>>
  /\ open = FALSE
  /\ reply = "ok"

\* The record is accepted; nothing reaches the dataset.
Accept(len) ==
  /\ open
  /\ pending' = Append(pending, Logged(len))
  /\ reply' = ReplyTo(len)
  /\ UNCHANGED <<capacity, stored, open>>

\* Everything buffered reaches the dataset, then the record is accepted.
StoreAndAccept(len) ==
  /\ open
  /\ stored' = stored \o pending
  /\ pending' = <<Logged(len)>>
  /\ reply' = ReplyTo(len)
  /\ UNCHANGED <<capacity, open>>

\* flush: everything buffered reaches the dataset.
Store ==
  /\ open
  /\ stored' = stored \o pending
  /\ pending' = <<>>
  /\ reply' = "ok"
  /\ UNCHANGED <<capacity, open>>

\* A failed call changes no record.
Refuse ==
  /\ reply' = "failed"
  /\ UNCHANGED <<capacity, stored, pending, open>>

\* A handle starts with nothing buffered.
Open ==
  /\ ~open
  /\ open' = TRUE
  /\ pending' = <<>>
  /\ reply' = "ok"
  /\ UNCHANGED <<capacity, stored>>

\* Only close gives up what is buffered, even when it reports that something
\* could not be released.
Close ==
  /\ open
  /\ open' = FALSE
  /\ pending' = <<>>
  /\ reply' \in {"ok", "failed"}
  /\ UNCHANGED <<capacity, stored>>

Next ==
  \/ \E len \in Lens : Accept(len) \/ StoreAndAccept(len)
  \/ Store
  \/ Refuse
  \/ Open
  \/ Close

Spec == Init /\ [][Next]_lvars
==============================================================================
