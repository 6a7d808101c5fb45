----------------------------- MODULE ReportShelf -----------------------------
(***************************************************************************)
(* What publication promises to the readers of the results: a shelf of     *)
(* numbered reports that only grows, by one report at a time; a report     *)
(* never changes, and the files offered for download say what it says.     *)
(***************************************************************************)
EXTENDS Integers, Sequences

CONSTANT Contents   \* what a report may say

VARIABLES
  shelf,       \* shelf[v]: the report published as version v
  downloads    \* downloads[v]: the files its readers are given

shelfVars == <<shelf, downloads>>

SInit == shelf = <<>> /\ downloads = <<>>

\* Some content c is put on the shelf: c is what is then read at its end.
Publish ==
  /\ Len(shelf') = Len(shelf) + 1
  /\ LET c == shelf'[Len(shelf')]
     IN /\ c \in Contents
        /\ shelf' = Append(shelf, c)
        /\ downloads' = Append(downloads, [json |-> c, pdf |-> c])

SSpec == SInit /\ [][Publish]_shelfVars

=============================================================================
