------------------------------ MODULE AgentName ------------------------------
(***************************************************************************)
(* The Foundry agent name derived from a pack's id (tags.go), as the loop  *)
(* over the id's runes and the repairs that follow it.  A rune is          *)
(* abstracted to what the loop tells apart: a lower-case letter, an        *)
(* upper-case one, a digit, one of the separators - _ . and space, or      *)
(* anything else.  A name is a sequence of letters, digits and hyphens.    *)
(***************************************************************************)
EXTENDS Integers, Sequences

CONSTANT MaxAgentNameLength

ASSUME LengthAssumption == MaxAgentNameLength \in Nat /\ MaxAgentNameLength >= 5

VARIABLES
  packId,      \* the pack's id
  taken,       \* how many runes of it were read
  agentName,   \* the name so far
  lastHyphen,  \* the last rune written was a hyphen
  nameDone     \* the name is finished

nameVars == <<packId, taken, agentName, lastHyphen, nameDone>>

Runes == {"letter", "upper", "digit", "separator", "other"}
Chars == {"letter", "digit", "hyphen"}

NameTypeOK ==
  /\ packId \in Seq(Runes)
  /\ taken \in 0 .. Len(packId)
  /\ agentName \in Seq(Chars)
  /\ lastHyphen \in BOOLEAN
  /\ nameDone \in BOOLEAN

NameInit(packID) ==
  /\ packId = packID
  /\ taken = 0
  /\ agentName = <<>>
  /\ lastHyphen = FALSE
  /\ nameDone = FALSE

-----------------------------------------------------------------------------
\* The loop of foldAgentNameChars: letters in lower case and digits are kept, a
\* run of separators becomes one hyphen, and none comes first.  (The mutated
\* form keeps the case.)
KeepCase(r) == r
ToLower(r)  == IF r = "upper" THEN "letter" ELSE r

OpensGap == ~lastHyphen /\ agentName # <<>>

FoldRune ==
  LET r == ToLower(packId[taken + 1]) IN
  /\ taken < Len(packId)
  /\ ~nameDone
  /\ taken' = taken + 1
  /\ \/ /\ r \in {"letter", "digit"}
        /\ agentName' = Append(agentName, r)
        /\ lastHyphen' = FALSE
     \/ /\ r = "separator" /\ OpensGap
        /\ agentName' = Append(agentName, "hyphen")
        /\ lastHyphen' = TRUE
     \/ /\ r \notin {"letter", "digit"} /\ ~(r = "separator" /\ OpensGap)
        /\ UNCHANGED <<agentName, lastHyphen>>
  /\ UNCHANGED <<packId, nameDone>>

\* The longest part of s that does not end, or begin, with a hyphen.
TrimRight(s) ==
  SubSeq(s, 1, CHOOSE n \in 0 .. Len(s) :
    /\ n = 0 \/ s[n] # "hyphen"
    /\ \A i \in n + 1 .. Len(s) : s[i] = "hyphen")

TrimLeft(s) ==
  SubSeq(s, CHOOSE n \in 1 .. Len(s) + 1 :
    /\ n = Len(s) + 1 \/ s[n] # "hyphen"
    /\ \A i \in 1 .. n - 1 : s[i] = "hyphen", Len(s))

Trim(s) == TrimRight(TrimLeft(s))

fallbackAgentName == [i \in 1 .. 5 |-> "letter"]

\* A name that starts with a digit gets a letter before it.
Prefixed(s) == IF s[1] = "digit" THEN <<"letter">> \o s ELSE s

\* A cut may lay bare a hyphen.  (The mutated form leaves it.)
CutOnly(s) ==
  IF Len(s) > MaxAgentNameLength THEN SubSeq(s, 1, MaxAgentNameLength) ELSE s
Cut(s) ==
  IF Len(s) > MaxAgentNameLength THEN TrimRight(SubSeq(s, 1, MaxAgentNameLength)) ELSE s

OrFallback(s) == IF s = <<>> THEN fallbackAgentName ELSE s

sanitizeAgentName ==
  /\ taken = Len(packId)
  /\ ~nameDone
  /\ nameDone' = TRUE
  /\ agentName' = IF Trim(agentName) = <<>> THEN fallbackAgentName
             ELSE OrFallback(Cut(Prefixed(Trim(agentName))))
  /\ UNCHANGED <<packId, taken, lastHyphen>>

NameNext == FoldRune \/ sanitizeAgentName
=============================================================================
