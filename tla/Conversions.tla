---------------------------- MODULE Conversions ----------------------------
(***************************************************************************)
(* What HtmlToImage and HtmlToPdf promise a program that calls them one    *)
(* after the other: each conversion saves the capture of its page, once,   *)
(* and then tells whether it did; saving may fail half-way and leave a     *)
(* part.  Browsers, pipes and protocol are out of sight.                   *)
(* ConvertHtmlModule and ConvertHtmlModuleNode implement this.             *)
(***************************************************************************)
EXTENDS Naturals, Sequences

CONSTANTS
  Files,    \* the files of the conversions, in the order of the calls, all different
  Contents, \* what each of them is to contain
  Nothing,  \* a file that is not there
  Piece     \* a file that was not written to its end

VARIABLES
  results,  \* what the finished conversions returned
  disk      \* the files

conversionVars == <<results, disk>>

Current == Len(results) + 1
File == Files[Current]
Untouched == disk[File] = Nothing
Saved == disk[File] \notin {Nothing, Piece}

Init == results = <<>> /\ \A f \in DOMAIN disk : disk[f] = Nothing

Write(content) ==
  /\ Current <= Len(Files) /\ Untouched
  /\ disk' = [disk EXCEPT ![File] = content]
  /\ UNCHANGED results

Save == Write(Contents[Current])
SaveInPart == Write(Piece)

Return(outcome) == results' = Append(results, outcome) /\ UNCHANGED disk

Succeed == Current <= Len(Files) /\ Saved /\ Return("true")

Fail == Current <= Len(Files) /\ ~Saved /\ \E outcome \in {"false", "threw"} : Return(outcome)

\* Not part of Next: success is reported although the file is not there, or only in part.
SucceedWithoutFile == Current <= Len(Files) /\ ~Saved /\ Return("true")

Next == Save \/ SaveInPart \/ Succeed \/ Fail

Spec == Init /\ [][Next]_conversionVars
=============================================================================
