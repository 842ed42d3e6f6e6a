----------------------------- MODULE PathUtil -----------------------------
(***************************************************************************)
(* Paths.  As text, a path is the sequence of what stands between its      *)
(* separators: an absolute one begins with an empty piece, and empty       *)
(* pieces elsewhere are as good as none.  PathInit takes it apart,         *)
(* PathFormat puts it together again, without what cancels.                *)
(***************************************************************************)
EXTENDS Naturals, Sequences, SequencesExt

PathGetSegments(text) == SelectSeq(text, LAMBDA piece : piece # "")

\* A PathBuffer: the directories to leave first, and the segments to enter.
\* From the end, every .. takes away the next segment in front of it that has
\* not been taken; what finds none leads.
PathInit(text) ==
    LET Read(piece, path) ==
            IF piece = "." THEN path
            ELSE IF piece = ".." THEN [path EXCEPT !.leadingDotDots = @ + 1]
            ELSE IF path.leadingDotDots > 0 THEN [path EXCEPT !.leadingDotDots = @ - 1]
            ELSE [path EXCEPT !.segments = <<piece>> \o @]
    IN  FoldRight(Read, PathGetSegments(text),
            [absolute |-> Len(text) > 1 /\ Head(text) = "",
             leadingDotDots |-> 0, segments |-> <<>>])

PathStripLast(path) ==
    IF path.segments = <<>> THEN path ELSE [path EXCEPT !.segments = Front(@)]

\* other as seen from path; nothing is above the root.
PathConcat(path, other) ==
    LET kept == Len(path.segments) - other.leadingDotDots
    IN  IF other.absolute THEN other
        ELSE [path EXCEPT
                !.segments = SubSeq(@, 1, kept) \o other.segments,
                !.leadingDotDots = IF path.absolute THEN 0 ELSE IF kept < 0 THEN @ - kept ELSE @]

PathFormat(path) ==
    (IF path.absolute THEN <<"">> ELSE <<>>)
      \o [k \in 1 .. path.leadingDotDots |-> ".."]
      \o (IF path.segments = <<>> THEN <<"">> ELSE path.segments)
===========================================================================
