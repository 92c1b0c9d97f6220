------------------------------- MODULE Redact -------------------------------
(***************************************************************************)
(* The redaction filter of `vmforge diagnose`                              *)
(* (crates/vmforge-cli/src/redact.rs).                                     *)
(*                                                                         *)
(* A text is a sequence of symbols, one for every word that the rules tell *)
(* apart: "n" the end of a line, "B" and "E" the words (of 8 letters or    *)
(* more) that open and close a PEM block at the start of a line, "k" a     *)
(* sensitive key of fewer than 8 letters, "=" a separator, "s" an          *)
(* authorization scheme, "v" an ordinary word of 8 letters or more, "t"    *)
(* one of 40 or more that looks random, "R" the replacement; anything else *)
(* is an ordinary word of fewer than 8 letters.                            *)
(***************************************************************************)
EXTENDS Naturals, Sequences, FiniteSets, FiniteSetsExt, SequencesExt

Text == Seq(STRING)

(* str::lines: a last line need not be ended. *)
LineEnd(text) == SelectInSeq(text, LAMBDA x : x = "n")

LinesOf[text \in Text] ==
    IF text = <<>> THEN <<>>
    ELSE IF LineEnd(text) = 0 THEN <<text>>
    ELSE <<SubSeq(text, 1, LineEnd(text) - 1)>>
            \o LinesOf[SubSeq(text, LineEnd(text) + 1, Len(text))]

Lines(text) == LinesOf[text]

Joined(lines) == FlattenSeq([i \in DOMAIN lines |-> Append(lines[i], "n")])

(***************************************************************************)
(* Rule 1, redact_key_value: only the first separator is looked at, and    *)
(* only the word before it; all that follows is replaced.                  *)
(***************************************************************************)
RedactKeyValue(line) ==
    LET i == SelectInSeq(line, LAMBDA x : x = "=") IN
    IF i > 1 /\ line[i - 1] = "k" THEN SubSeq(line, 1, i) \o <<"R">> ELSE line

(***************************************************************************)
(* Rule 2, redact_auth_schemes: the word after a scheme is replaced if it  *)
(* has 8 letters or more; it is passed over in any case, also if it is a   *)
(* scheme itself.                                                          *)
(***************************************************************************)
FollowsScheme(line, i) ==
    Cardinality({j \in 1 .. i - 1 : \A k \in j .. i - 1 : line[k] = "s"}) % 2 = 1

RedactAuthSchemes(line) ==
    [i \in DOMAIN line |->
        IF line[i] \in {"v", "t", "R", "B", "E"} /\ FollowsScheme(line, i) THEN "R" ELSE line[i]]

(* Rule 4, redact_long_tokens. *)
RedactLongTokens(line) == [i \in DOMAIN line |-> IF line[i] = "t" THEN "R" ELSE line[i]]

RedactLine(line) == RedactLongTokens(RedactAuthSchemes(RedactKeyValue(line)))

(***************************************************************************)
(* redact_text.  Rule 3: from a line that opens a PEM block to the one     *)
(* that closes it, or to the end of the text, only a marker is left.       *)
(***************************************************************************)
Opens(line)  == line # <<>> /\ line[1] = "B"
Closes(line) == line # <<>> /\ line[1] = "E"
Marker       == <<"R", "removed">>

(* in_pem when line i is looked at. *)
InPem_NeverCloses(lines, i) ==
    LET inPem[j \in 1 .. i] == j > 1 /\ (inPem[j - 1] \/ Opens(lines[j - 1]))
    IN  inPem[i]

InPem(lines, i) ==
    LET inPem[j \in 1 .. i] ==
            /\ j > 1
            /\ IF inPem[j - 1] THEN ~Closes(lines[j - 1]) ELSE Opens(lines[j - 1])
    IN  inPem[i]

(* What becomes of a line that is in no block. *)
Shown(line) == Append(IF Opens(line) THEN Marker ELSE RedactLine(line), "n")

RedactLines[lines \in Seq(Text)] ==
    LET upTo[i \in 0 .. Len(lines)] ==
            IF i = 0 THEN <<>>
            ELSE upTo[i - 1] \o (IF InPem(lines, i) THEN <<>> ELSE Shown(lines[i]))
    IN  upTo[Len(lines)]

RedactText(text) == RedactLines[Lines(text)]

-----------------------------------------------------------------------------
(***************************************************************************)
(* A line is ordinary if it is in no block and no rule has anything to     *)
(* look for in it.                                                         *)
(***************************************************************************)
InBlock(lines, i) ==
    \E j \in 1 .. i - 1 :
        Opens(lines[j]) /\ \A k \in j + 1 .. i - 1 : ~Closes(lines[k])

Ordinary(line) == ~Opens(line) /\ ToSet(line) \cap {"k", "s", "t", "R"} = {}

OrdinaryLines(text) ==
    LET lines == Lines(text)
    IN  FlattenSeq([i \in DOMAIN lines |->
            IF InBlock(lines, i) \/ ~Ordinary(lines[i]) THEN <<>> ELSE <<lines[i]>>])

(***************************************************************************)
(* A word is a secret if it is long and looks random, if the first         *)
(* separator of its line has a sensitive key before it and the word after  *)
(* it, or if it follows an authorization scheme and looks like a           *)
(* credential.  A line discloses something if it opens a PEM block or has  *)
(* a secret in it.                                                         *)
(***************************************************************************)
Assigned(line, i) ==
    \E f \in 2 .. i - 1 :
        line[f] = "=" /\ line[f - 1] = "k" /\ \A j \in 1 .. f - 1 : line[j] # "="

Secret(line, i) ==
    \/ line[i] = "t"
    \/ Assigned(line, i)
    \/ line[i] \in {"v", "B", "E"} /\ FollowsScheme(line, i)

Discloses(line) == Opens(line) \/ \E i \in DOMAIN line : line[i] # "R" /\ Secret(line, i)

(* The same as docs/diagnose.md has it: at any separator, after any scheme. *)
DocumentedSecret(line, i) ==
    \/ line[i] = "t"
    \/ \E f \in 2 .. i - 1 : line[f] = "=" /\ line[f - 1] = "k"
    \/ i > 1 /\ line[i] = "v" /\ line[i - 1] = "s"
=============================================================================
