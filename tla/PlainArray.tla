----------------------------- MODULE PlainArray -----------------------------
(***************************************************************************)
(* What the memory manager of libjpeg promises of a virtual array          *)
(* (jmemmgr.c:484-521): to its user it is an array of rows of the full     *)
(* height of the image, of which it borrows a strip at a time.  Nothing is *)
(* said here of a buffer, of a file, or of what is where.                  *)
(***************************************************************************)
EXTENDS Naturals

CONSTANTS
  Zero,     \* what a row holds that was never written, if that was asked for
  Values    \* what a row may hold

VARIABLES
  zeroed,   \* rows are to read as Zero before they are written
  content,  \* what each row of the array holds
  defined,  \* the rows before this one have been on loan for writing
  strip,    \* the rows that are on loan, and what the user sees in each
  writable, \* whether they may be written
  ended     \* an error, or the user, ended the use of the array

plainVars == <<zeroed, content, defined, strip, writable, ended>>

PlainInit ==
  /\ zeroed \in BOOLEAN
  /\ content = [r \in DOMAIN content |-> Zero]
  /\ strip = [r \in {} |-> Zero]
  /\ defined = 0 /\ ~writable /\ ~ended

(* A strip is lent.  For writing it must leave no gap, and its new rows    *)
(* become defined: they read as Zero, or as anything.  For reading it may  *)
(* reach past them only where the rows read as Zero.  No row that was      *)
(* defined before changes.                                                 *)
Lend(first, last, write) ==
  /\ ~ended
  /\ IF write THEN first <= defined ELSE last < defined \/ zeroed
  /\ writable' = write
  /\ defined' = IF write /\ last >= defined THEN last + 1 ELSE defined
  /\ UNCHANGED <<zeroed, ended>>
  /\ DOMAIN strip' = first..last
  /\ DOMAIN content' = DOMAIN content
  /\ \A r \in first..last : strip'[r] = content'[r]
  /\ \A r \in DOMAIN content :
       content'[r] # content[r] => ~zeroed /\ r \in defined..defined' - 1

(* The user writes into a row that it has borrowed for that. *)
Write(r, value) ==
  /\ ~ended /\ writable
  /\ UNCHANGED <<zeroed, defined, writable, ended>>
  /\ strip' = [strip EXCEPT ![r] = value]
  /\ content' = [content EXCEPT ![r] = value]

(* After the end the rows are nobody's. *)
End == ~ended /\ ended' = TRUE

PlainNext ==
  \/ End
  \/ \E first, last \in DOMAIN content, write \in BOOLEAN :
       Lend(first, last, write)
  \/ \E r \in DOMAIN strip, value \in Values : Write(r, value)

PlainSpec == PlainInit /\ [][PlainNext]_plainVars
=============================================================================
