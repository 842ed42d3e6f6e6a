-------------------------- MODULE IncludeScanner --------------------------
(***************************************************************************)
(* Reading the include statements of a text.  A text is a sequence of      *)
(* lines, a line a sequence of tokens; what isspace accepts is Space.  The *)
(* result names what is included, in order, and how.                       *)
(***************************************************************************)
EXTENDS Naturals, Sequences, SequencesExt

Space == " "
NoInclude == <<>>
Include(name, isSystem) == <<[name |-> name, isSystem |-> isSystem]>>

SkipSpace(s) ==
    LET rest == {k \in DOMAIN s : s[k] # Space}
    IN  IF rest = {} THEN <<>> ELSE SubSeq(s, CHOOSE k \in rest : \A l \in rest : k <= l, Len(s))
StartsWith(s, token) == s # <<>> /\ Head(s) = token

\* What is in front of the first token of that kind.
UpTo(s, token) == SubSeq(s, 1, (CHOOSE k \in DOMAIN s :
    s[k] = token /\ \A l \in 1 .. k - 1 : s[l] # token) - 1)

\* The name between separators, if the second one is there.
Separated(s, open, close, isSystem) ==
    IF StartsWith(s, open) /\ Contains(Tail(s), close)
    THEN Include(UpTo(Tail(s), close), isSystem) ELSE NoInclude

\* At least one space follows the word: #include<x> includes nothing.
ScanCppLine(line) ==
    LET hash == SkipSpace(line)
        word == IF StartsWith(hash, "#") THEN SkipSpace(Tail(hash)) ELSE <<>>
        after == IF StartsWith(word, "include") THEN Tail(word) ELSE <<>>
        name == IF StartsWith(after, Space) THEN SkipSpace(after) ELSE <<>>
    IN  Separated(name, "<", ">", TRUE) \o Separated(name, "'", "'", FALSE)

\* config: [keywords, requireSpace, useSeparators, bareIsSystem]
ScanLineGeneric(line, config) ==
    LET word == SkipSpace(line)
        isKeyword == \E k \in ToSet(config.keywords) : StartsWith(word, k)
        after == IF isKeyword /\ (config.requireSpace => word # line) THEN Tail(word) ELSE <<>>
        name == IF StartsWith(after, Space) THEN SkipSpace(after) ELSE <<>>
    IN  IF config.useSeparators
        THEN Separated(name, "<", ">", TRUE) \o Separated(name, ">", "<", FALSE)
               \o Separated(name, "'", "'", FALSE)
        ELSE IF name = <<>> THEN NoInclude
        ELSE Include(IF Contains(name, Space) THEN UpTo(name, Space) ELSE name,
                     config.bareIsSystem)

ScanIncludesCpp(text) == FlattenSeq([k \in DOMAIN text |-> ScanCppLine(text[k])])
ScanIncludesGeneric(text, config) ==
    FlattenSeq([k \in DOMAIN text |-> ScanLineGeneric(text[k], config)])
===========================================================================
