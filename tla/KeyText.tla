------------------------------ MODULE KeyText -------------------------------
(***************************************************************************)
(* The check of a key's text in src/bundle.rs: base64_decode reads it a    *)
(* character at a time, in groups of four, and `key` asks for 32 bytes.    *)
(* A character is a letter of the alphabet, the padding, or another byte.  *)
(***************************************************************************)
EXTENDS Integers, Sequences, SequencesExt

CONSTANTS
  Groups,   \* of the text, whose length `key` checks first
  Bytes     \* of a key

(* 44 characters, 32 bytes: three for each group, but for one padded.      *)
KeyTextAssumption == Groups \in Nat \ {0} /\ Bytes = 3 * Groups - 1

VARIABLES
  read,     \* the characters read
  pad, out, \* of the group under way, and the bytes so far
  verdict   \* "reading", "key" or "refused"

vars == <<read, pad, out, verdict>>

At == Len(read) % 4
LastGroup == Len(read) \div 4 = Groups - 1

Init == read = <<>> /\ pad = 0 /\ out = 0 /\ verdict = "reading"

Takes(c) ==
  \/ c = "letter" /\ pad = 0
  \/ c = "=" /\ At >= 2 /\ LastGroup

(* A group of four gives three bytes, less its padding.                    *)
Read(c) ==
  /\ verdict = "reading" /\ Len(read) < 4 * Groups
  /\ Takes(c)
  /\ read' = Append(read, c)
  /\ LET pads == pad + (IF c = "=" THEN 1 ELSE 0)
     IN  IF At = 3 THEN pad' = 0 /\ out' = out + 3 - pads
         ELSE pad' = pads /\ out' = out
  /\ UNCHANGED verdict

Refuse(c) ==
  /\ verdict = "reading" /\ Len(read) < 4 * Groups
  /\ ~Takes(c)
  /\ read' = Append(read, c) /\ verdict' = "refused"
  /\ UNCHANGED <<pad, out>>

Decoded ==
  /\ verdict = "reading" /\ Len(read) = 4 * Groups
  /\ verdict' = IF out = Bytes THEN "key" ELSE "refused"
  /\ UNCHANGED <<read, pad, out>>

Next ==
  \/ \E c \in {"letter", "=", "other"} : Read(c) \/ Refuse(c)
  \/ Decoded

Spec == Init /\ [][Next]_vars

-----------------------------------------------------------------------------
(* The texts accepted are those of WireGuard keys: letters all but the     *)
(* last character, which is the padding; and every such text is accepted.  *)
(* A padded group in the middle would make up for another (bundle.rs       *)
(* 187-188).                                                               *)
Shape(n) == [i \in 1..n |-> IF i = 4 * Groups THEN "=" ELSE "letter"]

KeyShape ==
  /\ verdict = "key" <=> read = Shape(4 * Groups) /\ verdict # "reading"
  /\ verdict = "refused" => ~IsPrefix(read, Shape(4 * Groups))
=============================================================================
