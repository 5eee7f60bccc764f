------------------------ MODULE ContainerStartProofs ------------------------
(***************************************************************************)
(* NameLegal and NameKeepsId for pack ids of any length and any limit of   *)
(* at least five, and what an accepted deployment may count on for every   *)
(* set of deployments and sandboxes.                                       *)
(***************************************************************************)
EXTENDS StartProperties, SequenceTheorems, FiniteSetTheorems, WellFoundedInduction, TLAPS

\* The first n elements of a neat name are one.
LEMMA PrefixNeat ==
  ASSUME NEW s \in Seq(Chars), Neat(s), NEW n \in 0 .. Len(s)
  PROVE  /\ SubSeq(s, 1, n) \in Seq(Chars)
         /\ Len(SubSeq(s, 1, n)) = n
         /\ \A i \in 1 .. n : SubSeq(s, 1, n)[i] = s[i]
         /\ Neat(SubSeq(s, 1, n))
  <1> DEFINE t == SubSeq(s, 1, n)
  <1>1. \A i \in 1 .. n : s[i] \in Chars
    BY ElementOfSeq
  <1>2. t \in Seq(Chars) /\ Len(t) = n /\ \A i \in 1 .. n : t[i] = s[i]
    BY <1>1, SubSeqProperties
  <1>3. Neat(t)
    <2>1. t # <<>> => n > 0
      BY <1>2, EmptySeq
    <2>2. n > 0 => s # <<>>
      BY EmptySeq
    <2> QED
      BY <1>2, <2>1, <2>2 DEF Neat
  <1> QED
    BY <1>2, <1>3

\* Trimming a neat name takes nothing but hyphens, and one at most.
LEMMA TrimRightCuts ==
  ASSUME NEW s \in Seq(Chars), Neat(s)
  PROVE  \E n \in 0 .. Len(s) :
           /\ n >= Len(s) - 1 /\ (n = 0 \/ s[n] # "hyphen")
           /\ \A k \in n + 1 .. Len(s) : s[k] = "hyphen"
           /\ TrimRight(s) = SubSeq(s, 1, n) /\ Len(TrimRight(s)) = n
           /\ \A k \in 1 .. n : TrimRight(s)[k] = s[k]
  <1> DEFINE Ends(n) == /\ n = 0 \/ s[n] # "hyphen"
                        /\ \A i \in n + 1 .. Len(s) : s[i] = "hyphen"
             n == CHOOSE n \in 0 .. Len(s) : Ends(n)
  <1>1. Len(s) \in Nat
    BY LenProperties
  <1>2. \E m \in 0 .. Len(s) : Ends(m)
    <2>1. CASE Len(s) = 0
      BY <2>1
    <2>2. CASE Len(s) > 0 /\ s[Len(s)] # "hyphen"
      BY <1>1, <2>2
    <2>3. CASE Len(s) > 0 /\ s[Len(s)] = "hyphen"
      <3>1. Len(s) - 1 = 0 \/ s[Len(s) - 1] # "hyphen"
        BY <1>1, <2>3 DEF Neat
      <3>2. \A i \in (Len(s) - 1) + 1 .. Len(s) : s[i] = "hyphen"
        BY <1>1, <2>3
      <3> QED
        BY <1>1, <2>3, <3>1, <3>2
    <2> QED
      BY <1>1, <2>1, <2>2, <2>3
  <1>3. n \in 0 .. Len(s) /\ Ends(n)
    BY <1>2
  <1>4. TrimRight(s) = SubSeq(s, 1, n)
    BY DEF TrimRight
  <1> HIDE DEF n
  <1>5. n >= Len(s) - 1
    <2> SUFFICES ASSUME n < Len(s) - 1 PROVE FALSE
      BY <1>1, <1>3
    <2>1. Len(s) \in 2 .. Len(s) /\ Len(s) \in n + 1 .. Len(s) /\ Len(s) - 1 \in n + 1 .. Len(s)
      BY <1>1, <1>3
    <2>2. s[Len(s)] = "hyphen" /\ s[Len(s) - 1] = "hyphen"
      BY <1>3, <2>1
    <2> QED
      BY <2>1, <2>2 DEF Neat
  <1>6. Len(SubSeq(s, 1, n)) = n /\ \A k \in 1 .. n : SubSeq(s, 1, n)[k] = s[k]
    BY <1>3, PrefixNeat
  <1> QED
    BY <1>3, <1>4, <1>5, <1>6

\* A neat name ends with one hyphen at most: trimming it is cutting that one.
LEMMA TrimRightNeat ==
  ASSUME NEW s \in Seq(Chars), Neat(s)
  PROVE  /\ TrimRight(s) \in Seq(Chars)
         /\ Neat(TrimRight(s))
         /\ Len(TrimRight(s)) <= Len(s)
         /\ TrimRight(s) # <<>> => TrimRight(s)[Len(TrimRight(s))] # "hyphen"
         /\ s # <<>> => TrimRight(s) # <<>> /\ TrimRight(s)[1] = s[1]
  <1>1. PICK n \in 0 .. Len(s) :
          /\ n = 0 \/ s[n] # "hyphen"
          /\ \A k \in n + 1 .. Len(s) : s[k] = "hyphen"
          /\ TrimRight(s) = SubSeq(s, 1, n) /\ Len(TrimRight(s)) = n
          /\ \A k \in 1 .. n : TrimRight(s)[k] = s[k]
    BY TrimRightCuts
  <1>2. Len(s) \in Nat /\ TrimRight(s) \in Seq(Chars) /\ Neat(TrimRight(s))
    BY <1>1, PrefixNeat, LenProperties
  <1>3. s # <<>> => n > 0
    BY <1>1, <1>2, EmptySeq DEF Neat
  <1>4. n > 0 <=> TrimRight(s) # <<>>
    BY <1>1, <1>2, EmptySeq
  <1> QED
    BY <1>1, <1>2, <1>3, <1>4

\* A neat name does not start with a hyphen.
LEMMA TrimLeftNeat ==
  ASSUME NEW s \in Seq(Chars), Neat(s)
  PROVE  TrimLeft(s) = s
  <1> DEFINE Starts(n) == /\ n = Len(s) + 1 \/ s[n] # "hyphen"
                          /\ \A i \in 1 .. n - 1 : s[i] = "hyphen"
             n == CHOOSE n \in 1 .. Len(s) + 1 : Starts(n)
  <1>1. Len(s) \in Nat /\ (s # <<>> => Len(s) > 0) /\ (s = <<>> => Len(s) = 0)
    BY LenProperties, EmptySeq
  <1>2. Starts(1) /\ 1 \in 1 .. Len(s) + 1
    BY <1>1 DEF Neat
  <1> HIDE DEF Starts
  <1>3. n \in 1 .. Len(s) + 1 /\ Starts(n)
    BY <1>2
  <1> USE DEF Starts
  <1> HIDE DEF n
  <1>4. n = 1
    <2> SUFFICES ASSUME n > 1 PROVE FALSE
      BY <1>1, <1>3
    <2>1. s # <<>>
      BY <1>1, <1>3
    <2>2. s[1] = "hyphen"
      BY <1>1, <1>3
    <2> QED
      BY <2>1, <2>2 DEF Neat
  <1>5. TrimLeft(s) = SubSeq(s, n, Len(s))
    BY DEF TrimLeft, n, Starts
  <1> QED
    BY <1>4, <1>5, SubSeqFull

\* A letter before a digit makes a name of what was none.
LEMMA PrefixedNeat ==
  ASSUME NEW t \in Seq(Chars), Neat(t), t # <<>>
  PROVE  LET p == Prefixed(t)
         IN /\ p \in Seq(Chars) /\ Len(p) \in Nat /\ Len(p) > 0 /\ p # <<>>
            /\ p[1] = "letter" /\ Neat(p)
            /\ t[Len(t)] # "hyphen" => p[Len(p)] # "hyphen"
  <1> DEFINE p == Prefixed(t)
  <1>1. Len(t) \in Nat /\ Len(t) > 0 /\ t[1] \in Chars /\ t[1] # "hyphen"
    BY EmptySeq, LenProperties, ElementOfSeq DEF Neat
  <1>2. CASE t[1] = "digit"
    <2>1. p = <<"letter">> \o t
      BY <1>2 DEF Prefixed
    <2>2. <<"letter">> \in Seq(Chars) /\ Len(<<"letter">>) = 1 /\ <<"letter">>[1] = "letter"
      BY DEF Chars
    <2>3. /\ p \in Seq(Chars) /\ Len(p) = 1 + Len(t)
          /\ \A i \in 1 .. 1 + Len(t) : p[i] = IF i <= 1 THEN <<"letter">>[i] ELSE t[i - 1]
      BY <2>1, <2>2, ConcatProperties
    <2>4. p[1] = "letter" /\ \A i \in 2 .. 1 + Len(t) : p[i] = t[i - 1]
      BY <1>1, <2>2, <2>3
    <2> HIDE DEF p
    <2>5. p[Len(p)] = t[Len(t)] /\ p # <<>>
      BY <1>1, <2>3, <2>4, EmptySeq
    <2>6. ASSUME NEW i \in 2 .. Len(p), p[i] = "hyphen" PROVE p[i - 1] # "hyphen"
      <3>1. CASE i = 2
        BY <2>4, <3>1
      <3>2. CASE i > 2
        <4>1. p[i] = t[i - 1] /\ p[i - 1] = t[(i - 1) - 1] /\ i - 1 \in 2 .. Len(t)
          BY <1>1, <2>3, <2>4, <3>2
        <4> QED
          BY <2>6, <4>1 DEF Neat
      <3> QED
        BY <1>1, <2>3, <3>1, <3>2
    <2>7. Neat(p)
      BY <2>4, <2>6 DEF Neat
    <2> QED
      BY <1>1, <2>3, <2>4, <2>5, <2>7 DEF p
  <1>3. CASE t[1] # "digit"
    BY <1>1, <1>3 DEF Prefixed, Chars
  <1> QED
    BY <1>2, <1>3

\* The name that sanitizeAgentName returns.
LEMMA Sanitized ==
  ASSUME NEW s \in Seq(Chars), Neat(s)
  PROVE  LET name == IF Trim(s) = <<>> THEN fallbackAgentName
                     ELSE OrFallback(Cut(Prefixed(Trim(s))))
         IN /\ name \in Seq(Chars)
            /\ Len(name) \in 1 .. MaxAgentNameLength
            /\ name[1] = "letter"
            /\ name[Len(name)] # "hyphen"
            /\ Neat(name)
  <1> DEFINE Legal(n) == /\ n \in Seq(Chars)
                         /\ Len(n) \in 1 .. MaxAgentNameLength
                         /\ n[1] = "letter"
                         /\ n[Len(n)] # "hyphen"
                         /\ Neat(n)
             t == Trim(s)
             p == Prefixed(t)
             c == Cut(p)
  <1>1. /\ t \in Seq(Chars) /\ Neat(t)
        /\ t # <<>> => t[Len(t)] # "hyphen"
    BY TrimLeftNeat, TrimRightNeat DEF Trim
  <1>2. Legal(fallbackAgentName)
    <2>1. fallbackAgentName \in Seq(Chars) /\ Len(fallbackAgentName) = 5
      BY DEF fallbackAgentName, Chars
    <2>2. \A i \in 1 .. 5 : fallbackAgentName[i] = "letter"
      BY DEF fallbackAgentName
    <2> QED
      BY <2>1, <2>2, LengthAssumption DEF Neat
  <1>3. ASSUME t # <<>> PROVE Legal(OrFallback(c))
    <2> HIDE DEF t
    <2>1. Len(t) \in Nat /\ Len(t) > 0 /\ t[1] \in Chars /\ t[1] # "hyphen"
      BY <1>1, <1>3, EmptySeq, LenProperties, ElementOfSeq DEF Neat
    <2>2. /\ p \in Seq(Chars) /\ Len(p) \in Nat /\ Len(p) > 0 /\ p[1] = "letter"
          /\ p[Len(p)] # "hyphen" /\ Neat(p)
      BY <1>1, <1>3, <2>1, PrefixedNeat
    <2> HIDE DEF p
    <2>3. p # <<>>
      BY <2>2, EmptySeq
    <2>4. Legal(c) /\ c # <<>>
      <3>1. CASE Len(p) > MaxAgentNameLength
        <4> DEFINE q == SubSeq(p, 1, MaxAgentNameLength)
        <4>1. q \in Seq(Chars) /\ Len(q) = MaxAgentNameLength /\ q[1] = p[1] /\ Neat(q)
          BY <2>2, <3>1, LengthAssumption, PrefixNeat
        <4>2. c = TrimRight(q)
          BY <3>1 DEF Cut
        <4> HIDE DEF q, c
        <4>3. q # <<>>
          BY <4>1, LengthAssumption, EmptySeq
        <4>4. /\ c \in Seq(Chars) /\ Neat(c) /\ Len(c) <= MaxAgentNameLength
              /\ c # <<>> /\ c[1] = "letter" /\ c[Len(c)] # "hyphen"
          BY <2>2, <4>1, <4>2, <4>3, TrimRightNeat
        <4>5. Len(c) \in Nat /\ Len(c) > 0
          BY <4>4, EmptySeq, LenProperties
        <4> QED
          BY <4>4, <4>5, LengthAssumption
      <3>2. CASE Len(p) <= MaxAgentNameLength
        <4>1. c = p
          BY <2>2, <3>2, LengthAssumption DEF Cut
        <4> QED
          BY <2>2, <2>3, <3>2, <4>1, LengthAssumption
      <3> QED
        BY <2>2, <3>1, <3>2, LengthAssumption
    <2> QED
      BY <2>4 DEF OrFallback
  <1> QED
    BY <1>2, <1>3

-----------------------------------------------------------------------------
\* The loop starts with nothing written.
LEMMA NameInitInv == Init => NameInv
  <1> SUFFICES ASSUME Init PROVE NameInv
    OBVIOUS
  <1>1. packId = request.pack.id /\ taken = 0 /\ agentName = <<>>
        /\ lastHyphen = FALSE /\ nameDone = FALSE
    BY DEF Init, NameInit
  <1>2. packId \in Seq(Runes)
    BY <1>1, DeploymentAssumption DEF Init
  <1>3. Len(packId) \in Nat
    BY <1>2, LenProperties
  <1>4. agentName \in Seq(Chars) /\ Len(agentName) = 0
    BY <1>1, EmptySeq
  <1>5. NameTypeOK
    <2>1. taken \in 0 .. Len(packId)
      BY <1>1, <1>3
    <2>2. lastHyphen \in BOOLEAN /\ nameDone \in BOOLEAN
      BY <1>1, Zenon
    <2> QED
      BY <1>2, <1>4, <2>1, <2>2, Zenon DEF NameTypeOK
  <1>6. Neat(agentName)
    BY <1>1, <1>4 DEF Neat
  <1>7. NameLegal
    BY <1>1 DEF NameLegal
  <1> QED
    BY <1>1, <1>5, <1>6, <1>7 DEF NameInv

\* One rune.
LEMMA FoldKeeps ==
  ASSUME NameInv, FoldRune
  PROVE  NameInv'
  <1> DEFINE r == ToLower(packId[taken + 1])
  <1>1. /\ packId \in Seq(Runes) /\ Len(packId) \in Nat
        /\ taken \in Nat /\ taken < Len(packId) /\ taken' = taken + 1
        /\ packId' = packId /\ ~nameDone /\ nameDone' = nameDone /\ nameDone \in BOOLEAN
    BY LenProperties DEF NameInv, NameTypeOK, FoldRune
  <1>2. agentName \in Seq(Chars) /\ Len(agentName) \in Nat /\ Neat(agentName)
    BY LenProperties DEF NameInv, NameTypeOK
  <1>3. lastHyphen <=> agentName # <<>> /\ agentName[Len(agentName)] = "hyphen"
    BY <1>1 DEF NameInv
  <1>4. /\ agentName' \in Seq(Chars)
        /\ lastHyphen' \in BOOLEAN
        /\ Neat(agentName')
        /\ lastHyphen' <=> agentName' # <<>> /\ agentName'[Len(agentName')] = "hyphen"
    <2>1. ASSUME NEW x \in Chars, agentName' = Append(agentName, x),
                 x = "hyphen" => OpensGap, lastHyphen' = (x = "hyphen")
          PROVE  <1>4!:
      <3>1. /\ agentName' \in Seq(Chars) /\ Len(agentName') = Len(agentName) + 1
            /\ agentName'[Len(agentName) + 1] = x
            /\ \A i \in 1 .. Len(agentName) : agentName'[i] = agentName[i]
        BY <1>2, <2>1
      <3>2. agentName' # <<>>
        BY <1>2, <3>1, EmptySeq
      <3>3. Neat(agentName')
        <4>1. agentName'[1] # "hyphen"
          <5>1. CASE agentName = <<>>
            BY <2>1, <3>1, <5>1, EmptySeq DEF OpensGap
          <5>2. CASE agentName # <<>>
            BY <1>2, <3>1, <5>2, EmptySeq DEF Neat
          <5> QED
            BY <5>1, <5>2
        <4>2. ASSUME NEW i \in 2 .. Len(agentName'), agentName'[i] = "hyphen"
              PROVE  agentName'[i - 1] # "hyphen"
          <5>1. CASE i <= Len(agentName)
            BY <1>2, <3>1, <4>2, <5>1 DEF Neat
          <5>2. CASE i = Len(agentName) + 1
            BY <1>2, <1>3, <2>1, <3>1, <4>2, <5>2 DEF OpensGap
          <5> QED
            BY <1>2, <3>1, <4>2, <5>1, <5>2
        <4> QED
          BY <4>1, <4>2 DEF Neat
      <3> QED
        BY <1>2, <2>1, <3>1, <3>2, <3>3
    <2>2. CASE r \in {"letter", "digit"} /\ agentName' = Append(agentName, r) /\ lastHyphen' = FALSE
      BY <2>1, <2>2 DEF Chars
    <2>3. CASE OpensGap /\ agentName' = Append(agentName, "hyphen") /\ lastHyphen' = TRUE
      BY <2>1, <2>3 DEF Chars
    <2>4. CASE UNCHANGED <<agentName, lastHyphen>>
      BY <1>2, <1>3, <2>4 DEF NameInv, NameTypeOK
    <2> QED
      BY <2>2, <2>3, <2>4 DEF FoldRune
  <1> QED
    BY <1>1, <1>4 DEF NameInv, NameTypeOK, NameLegal

\* The repairs after the loop.
LEMMA SanitizeKeeps ==
  ASSUME NameInv, sanitizeAgentName
  PROVE  NameInv'
  <1>1. agentName \in Seq(Chars) /\ Neat(agentName)
    BY DEF NameInv, NameTypeOK
  <1>2. /\ agentName' \in Seq(Chars)
        /\ Len(agentName') \in 1 .. MaxAgentNameLength
        /\ agentName'[1] = "letter"
        /\ agentName'[Len(agentName')] # "hyphen"
        /\ Neat(agentName')
    BY <1>1, Sanitized DEF sanitizeAgentName
  <1>3. nameDone' = TRUE /\ UNCHANGED <<packId, taken, lastHyphen>>
    BY DEF sanitizeAgentName
  <1> QED
    BY <1>2, <1>3 DEF NameInv, NameTypeOK, NameLegal, Neat

\* Every other step leaves the name alone.
LEMMA NameSteps ==
  ASSUME [Next]_vars
  PROVE  FoldRune \/ sanitizeAgentName \/ UNCHANGED nameVars
  BY DEF Next, ValidateConfig, gatherPlanInput, NameAgent, NameNext, buildAgentEnv,
         loadConfig, resolvePackFile, LoadPack, ResolveAgent, buildSDKOptions,
         parseToolSpecs, buildVoiceHandler, newSessionStore, Step, vars

LEMMA NameNextInv == NameInv /\ [Next]_vars => NameInv'
  <1> SUFFICES ASSUME NameInv, [Next]_vars PROVE NameInv'
    OBVIOUS
  <1>1. CASE FoldRune
    BY <1>1, FoldKeeps
  <1>2. CASE sanitizeAgentName
    BY <1>2, SanitizeKeeps
  <1>3. CASE UNCHANGED nameVars
    BY <1>3 DEF nameVars, NameInv, NameTypeOK, NameLegal
  <1> QED
    BY <1>1, <1>2, <1>3, NameSteps

(***************************************************************************)
(* Whatever the id of the pack, however long, and whatever the limit, the  *)
(* agent gets a legal name.                                                *)
(***************************************************************************)
THEOREM NameAlwaysLegal == Spec => []NameLegal
  <1>1. NameInv => NameLegal
    BY DEF NameInv
  <1> QED
    BY <1>1, NameInitInv, NameNextInv, PTL DEF Spec

-----------------------------------------------------------------------------
(***************************************************************************)
(* Which binding answers.                                                  *)
(***************************************************************************)

LEMMA LeastNat ==
  ASSUME NEW S, S \subseteq Nat, S # {}
  PROVE  \E i \in S : \A j \in S : i <= j
  <1> DEFINE R == OpToRel(<, Nat)
  <1>1. IsWellFoundedOn(R, Nat)
    BY NatLessThanWellFounded
  <1>2. \A i, j \in Nat : j < i => <<j, i>> \in R
    BY DEF OpToRel
  <1> HIDE DEF R
  <1>3. PICK i \in S : \A j \in S : ~ (<<j, i>> \in R)
    BY <1>1, WFMin
  <1>4. ASSUME NEW j \in S PROVE i <= j
    <2>1. i \in Nat /\ j \in Nat /\ ~ (<<j, i>> \in R)
      BY <1>3
    <2>2. ~ (j < i)
      BY <1>2, <2>1, Zenon
    <2> QED
      BY <2>1, <2>2
  <1> QED
    BY <1>4

\* The first of some bindings is one of them.
LEMMA FirstIsOne ==
  ASSUME NEW list, NEW S, S \subseteq Nat, FirstOf(list, S) # None
  PROVE  \E i \in S : /\ FirstOf(list, S) = list[i]
                      /\ \A j \in S : i <= j
  <1>1. S # {}
    BY DEF FirstOf
  <1>2. PICK i \in S : \A j \in S : i <= j
    BY <1>1, LeastNat
  <1> DEFINE k == CHOOSE m \in S : \A j \in S : m <= j
  <1>3. k \in S /\ \A j \in S : k <= j
    BY <1>2
  <1>4. FirstOf(list, S) = list[k]
    BY <1>1 DEF FirstOf
  <1> QED
    BY <1>3, <1>4

LEMMA PrimaryIsOne ==
  ASSUME request \in Deployments, primaryBinding(Resolved) # None
  PROVE  \E i \in DOMAIN Resolved : primaryBinding(Resolved) = Resolved[i]
  <1>1. DOMAIN Resolved \subseteq Nat
    BY DeploymentAssumption DEF Resolved, Config
  <1> DEFINE named == {i \in LLMs(Resolved) : Resolved[i].name = "default"}
             S     == IF named # {} THEN named ELSE LLMs(Resolved)
  <1>2. S \subseteq DOMAIN Resolved
    BY DEF LLMs
  <1>3. primaryBinding(Resolved) = FirstOf(Resolved, S)
    BY DEF primaryBinding
  <1> HIDE DEF S
  <1> QED
    BY <1>1, <1>2, <1>3, FirstIsOne

\* A pack that names its entry, or has one prompt, is served by name.
LEMMA EntryOrOne ==
  ASSUME request \in Deployments, resolveAgentName(Pack) = None
  PROVE  Pack.entry = None /\ Cardinality(Pack.prompts) # 1
  <1>1. IsFiniteSet(Pack.prompts) /\ None \notin Pack.prompts
    BY DeploymentAssumption DEF Pack
  <1>2. Pack.entry = None
    BY DEF resolveAgentName
  <1>3. ASSUME Cardinality(Pack.prompts) = 1 PROVE FALSE
    <2>1. PICK n : Pack.prompts = {n}
      BY <1>1, <1>3, FS_Singleton
    <2>2. (CHOOSE m \in Pack.prompts : TRUE) \in Pack.prompts
      BY <2>1
    <2> QED
      BY <1>1, <1>2, <1>3, <2>2 DEF resolveAgentName
  <1> QED
    BY <1>2, <1>3

-----------------------------------------------------------------------------
(***************************************************************************)
(* StartInv, step by step.                                                 *)
(***************************************************************************)

\* What depends on the request alone stays.
LEMMA RequestSame ==
  ASSUME request' = request
  PROVE  /\ Config' = Config /\ Pack' = Pack /\ Arena' = Arena
         /\ Resolved' = Resolved
         /\ encodeToolSpecs' = encodeToolSpecs
         /\ addStateStoreEnv(Config.store)' = addStateStoreEnv(Config.store)
  <1>1. Config' = Config /\ Pack' = Pack /\ Arena' = Arena
    BY DEF Config, Pack, Arena
  <1>2. Resolved' = Resolved
    BY <1>1 DEF Resolved, resolveBinding, provider
  <1>3. encodeToolSpecs' = encodeToolSpecs
    BY <1>1 DEF encodeToolSpecs, Named, FirstManifest
  <1>4. addStateStoreEnv(Config.store)' = addStateStoreEnv(Config.store)
    BY <1>1 DEF addStateStoreEnv, NoStore
  <1> QED
    BY <1>1, <1>2, <1>3, <1>4

LEMMA ChecksSame ==
  ASSUME request' = request
  PROVE  /\ validateStructure(Config)' <=> validateStructure(Config)
         /\ primaryBinding(Resolved)' = primaryBinding(Resolved)
         /\ (diagnoseProtocols(Config) \cap Protocols)' = diagnoseProtocols(Config) \cap Protocols
         /\ bindingWarnings(Config.providers)' = bindingWarnings(Config.providers)
  <1>1. Config' = Config /\ Resolved' = Resolved
    BY RequestSame
  <1>2. primaryBinding(Resolved)' = primaryBinding(Resolved)
    BY <1>1 DEF primaryBinding, FirstOf, LLMs
  <1>3. bindingWarnings(Config.providers)' = bindingWarnings(Config.providers)
    BY <1>1 DEF bindingWarnings
  <1> QED
    BY <1>1, <1>2, <1>3 DEF validateStructure, validateStateStore, applyDefaults, diagnoseProtocols,
       Protocols, Stores

LEMMA PrimarySame ==
  ASSUME env' = env
  PROVE  primaryBinding(env.providers)' = primaryBinding(env.providers)
  BY DEF primaryBinding, FirstOf, LLMs

LEMMA NothingIn == DOMAIN <<>> = {}
  <1>1. <<>> \in Seq({}) /\ Len(<<>>) = 0
    OBVIOUS
  <1> QED
    BY <1>1, LenProperties

LEMMA StartInitInv == Init => StartInv
  <1> SUFFICES ASSUME Init PROVE StartInv
    OBVIOUS
  <1>1. /\ request \in Deployments /\ sandbox \in Sandboxes
        /\ stage \in {"validate", "plan"} /\ ended = "" /\ warned = None
        /\ bindings = <<>> /\ env = NoEnv /\ runtime = Unbuilt
    BY DEF Init
  <1>2. NameTypeOK /\ packId = Pack.id
    BY NameInitInv DEF NameInv, Init, NameInit, Pack
  <1>3. TypeOK
    <2>1. DOMAIN bindings = {} /\ DOMAIN runtime.specs = {}
      BY <1>1, NothingIn DEF Unbuilt
    <2>2. env.store.kind = None /\ runtime.store = None
      BY <1>1 DEF NoEnv, NoStore, Unbuilt
    <2>3. /\ DOMAIN runtime.specs \subseteq DOMAIN env.tools
          /\ \A i \in DOMAIN bindings : bindings[i].role # None
          /\ env.store.kind \in Stores \cup {None} /\ runtime.store \in Stores \cup {None}
          /\ DOMAIN env = DOMAIN NoEnv /\ DOMAIN runtime = DOMAIN Unbuilt
      BY <1>1, <2>1, <2>2, Zenon
    <2>4. stage \in Stages
      BY <1>1 DEF Stages
    <2> QED
      BY <1>1, <1>2, <2>3, <2>4, Zenon DEF TypeOK
  <1>4. AdapterInv /\ ContainerInv /\ AcceptedServes
    BY <1>1 DEF AdapterInv, ContainerInv, AcceptedServes, Past, Unbuilt
  <1> QED
    BY <1>3, <1>4 DEF StartInv

\* A configuration that passed the plan names a store the runtime knows.
LEMMA StoreKind ==
  ASSUME validateStructure(Config)
  PROVE  addStateStoreEnv(Config.store).kind \in Stores \cup {None}
  BY DEF validateStructure, validateStateStore, addStateStoreEnv, NoStore, Stores

LEMMA ValidateKeeps ==
  ASSUME StartInv, NameInv', ValidateConfig
  PROVE  StartInv'
  <1>1. /\ request' = request /\ sandbox' = sandbox /\ packId' = packId
        /\ stage' \in {"validate", "plan"} /\ ended' \in {"", "rejected"}
        /\ stage = "validate"
        /\ bindings' = bindings /\ env' = env /\ runtime' = runtime
        /\ warned'.protocols = diagnoseProtocols(Config) \cap Protocols
        /\ warned'.primary = bindingWarnings(Config.providers)
    BY DEF ValidateConfig, Step, nameVars
  <1>2. Config' = Config /\ Pack' = Pack
    BY <1>1, RequestSame
  <1>3. TypeOK'
    BY <1>1, <1>2 DEF StartInv, TypeOK, Stages, NameInv
  <1>4. AdapterInv'
    BY <1>1, ChecksSame DEF StartInv, AdapterInv, Past
  <1>5. ContainerInv' /\ AcceptedServes'
    BY <1>1 DEF StartInv, ContainerInv, AcceptedServes
  <1> QED
    BY <1>3, <1>4, <1>5 DEF StartInv

LEMMA PlanKeeps ==
  ASSUME StartInv, NameInv', gatherPlanInput
  PROVE  StartInv'
  <1>1. /\ request' = request /\ sandbox' = sandbox /\ packId' = packId
        /\ stage = "plan" /\ ended' \in {"", "rejected"}
        /\ bindings' = Resolved /\ warned' = warned /\ env' = env /\ runtime' = runtime
        /\ \/ stage' = "plan"
           \/ /\ stage' = "name"
              /\ validateStructure(Config) /\ primaryBinding(Resolved) # None
    BY DEF gatherPlanInput, Step, nameVars
  <1>2. Config' = Config /\ Pack' = Pack /\ Resolved' = Resolved
    BY <1>1, RequestSame
  <1>3. \A i \in DOMAIN bindings' : bindings'[i].role # None
    BY <1>1, NoneAssumption DEF Resolved, resolveBinding
  <1>4. TypeOK'
    BY <1>1, <1>2, <1>3 DEF StartInv, TypeOK, Stages, NameInv
  <1>5. AdapterInv'
    <2>1. /\ validateStructure(Config)' <=> validateStructure(Config)
          /\ primaryBinding(Resolved)' = primaryBinding(Resolved)
          /\ (diagnoseProtocols(Config) \cap Protocols)' = diagnoseProtocols(Config) \cap Protocols
        /\ bindingWarnings(Config.providers)' = bindingWarnings(Config.providers)
      BY <1>1, ChecksSame
    <2> QED
      BY <1>1, <1>2, <2>1 DEF StartInv, AdapterInv, Past
  <1>6. ContainerInv' /\ AcceptedServes'
    BY <1>1 DEF StartInv, ContainerInv, AcceptedServes
  <1> QED
    BY <1>4, <1>5, <1>6 DEF StartInv

LEMMA NameKeeps ==
  ASSUME StartInv, NameInv', NameAgent
  PROVE  StartInv'
  <1>1. /\ request' = request /\ sandbox' = sandbox
        /\ stage = "name" /\ stage' \in {"name", "spec"} /\ ended = "" /\ ended' = ended
        /\ bindings' = bindings /\ warned' = warned /\ env' = env /\ runtime' = runtime
    BY DEF NameAgent
  <1>2. packId' = packId
    BY DEF NameAgent, NameNext, FoldRune, sanitizeAgentName
  <1>3. /\ Config' = Config /\ Pack' = Pack /\ Resolved' = Resolved
        /\ validateStructure(Config)' <=> validateStructure(Config)
        /\ primaryBinding(Resolved)' = primaryBinding(Resolved)
        /\ (diagnoseProtocols(Config) \cap Protocols)' = diagnoseProtocols(Config) \cap Protocols
        /\ bindingWarnings(Config.providers)' = bindingWarnings(Config.providers)
    BY <1>1, RequestSame, ChecksSame
  <1>4. TypeOK'
    BY <1>1, <1>2, <1>3 DEF StartInv, TypeOK, Stages, NameInv
  <1>5. AdapterInv'
    BY <1>1, <1>3 DEF StartInv, AdapterInv, Past, Stages
  <1>6. ContainerInv' /\ AcceptedServes'
    BY <1>1 DEF StartInv, ContainerInv, AcceptedServes
  <1> QED
    BY <1>4, <1>5, <1>6 DEF StartInv

LEMMA EnvKeeps ==
  ASSUME StartInv, NameInv', buildAgentEnv
  PROVE  StartInv'
  <1>1. /\ request' = request /\ sandbox' = sandbox /\ packId' = packId
        /\ stage = "spec" /\ stage' \in {"spec", "config"}
        /\ ended' \in {"", "rejected"}
        /\ bindings' = bindings /\ warned' = warned /\ runtime' = runtime
    BY DEF buildAgentEnv, Step, nameVars
  <1>2. /\ Config' = Config /\ Pack' = Pack /\ Resolved' = Resolved
        /\ encodeToolSpecs' = encodeToolSpecs
        /\ addStateStoreEnv(Config.store)' = addStateStoreEnv(Config.store)
        /\ validateStructure(Config)' <=> validateStructure(Config)
        /\ primaryBinding(Resolved)' = primaryBinding(Resolved)
        /\ (diagnoseProtocols(Config) \cap Protocols)' = diagnoseProtocols(Config) \cap Protocols
        /\ bindingWarnings(Config.providers)' = bindingWarnings(Config.providers)
    BY <1>1, RequestSame, ChecksSame
  <1>3. validateStructure(Config) /\ bindings = Resolved /\ primaryBinding(Resolved) # None
    BY <1>1 DEF StartInv, AdapterInv, Past, Stages
  <1>4. /\ env'.pack = ~Pack.big /\ env'.providers = Resolved
        /\ env'.endpoint = azureEndpoint(Config) /\ env'.tools = encodeToolSpecs
        /\ env'.store = addStateStoreEnv(Config.store)
        /\ DOMAIN env' = DOMAIN NoEnv
    BY <1>3 DEF buildAgentEnv, NoEnv
  <1>5. TypeOK'
    <2>1. env'.store.kind \in Stores \cup {None}
      BY <1>3, <1>4, StoreKind
    <2>2. DOMAIN runtime.specs = {}
      BY <1>1, NothingIn DEF StartInv, ContainerInv
    <2>3. /\ DOMAIN runtime'.specs \subseteq DOMAIN env'.tools
          /\ stage' \in Stages /\ ended' \in {"", "rejected", "exited", "serving"}
      BY <1>1, <2>2 DEF Stages
    <2> QED
      BY <1>1, <1>2, <1>4, <2>1, <2>3 DEF StartInv, TypeOK, NameInv
  <1>6. AdapterInv'
    <2>1. azureEndpoint(Config)' = azureEndpoint(Config)
      BY <1>2 DEF azureEndpoint
    <2> QED
      BY <1>1, <1>2, <1>3, <1>4, <2>1 DEF StartInv, AdapterInv
  <1>7. ContainerInv' /\ AcceptedServes'
    BY <1>1 DEF StartInv, ContainerInv, AcceptedServes
  <1> QED
    BY <1>5, <1>6, <1>7 DEF StartInv

\* The environment is there once the container starts, and stays.
ContainerStages == {"config", "pack", "load", "agent", "provider", "tools", "voice",
                    "store"}

LEMMA Written ==
  ASSUME StartInv, stage \in ContainerStages
  PROVE  /\ validateStructure(Config)
         /\ bindings = Resolved /\ primaryBinding(Resolved) # None
         /\ env.pack = ~Pack.big /\ env.providers = Resolved
         /\ env.endpoint = azureEndpoint(Config) /\ env.tools = encodeToolSpecs
         /\ env.store = addStateStoreEnv(Config.store)
         /\ warned # None => /\ warned.protocols = diagnoseProtocols(Config) \cap Protocols
                            /\ warned.primary = bindingWarnings(Config.providers)
  BY DEF StartInv, AdapterInv, Past, Stages, ContainerStages

LEMMA EnvironmentStays ==
  ASSUME StartInv, NameInv', stage \in ContainerStages, stage' \in ContainerStages,
         UNCHANGED <<request, sandbox, nameVars, warned, bindings, env>>
  PROVE  /\ AdapterInv'
         /\ /\ request' \in Deployments /\ packId' = Pack.id' /\ sandbox' \in Sandboxes
            /\ stage' \in Stages /\ NameTypeOK'
            /\ warned' = None \/ warned'.protocols \subseteq Protocols
            /\ \A i \in DOMAIN bindings' : bindings'[i].role # None
            /\ DOMAIN env' = DOMAIN NoEnv /\ env'.store.kind \in Stores \cup {None}
  <1>1. /\ request' = request /\ packId' = packId /\ sandbox' = sandbox
        /\ warned' = warned /\ bindings' = bindings /\ env' = env
    BY DEF nameVars
  <1>2. /\ Config' = Config /\ Pack' = Pack /\ Resolved' = Resolved
        /\ encodeToolSpecs' = encodeToolSpecs
        /\ addStateStoreEnv(Config.store)' = addStateStoreEnv(Config.store)
        /\ validateStructure(Config)' <=> validateStructure(Config)
        /\ primaryBinding(Resolved)' = primaryBinding(Resolved)
        /\ (diagnoseProtocols(Config) \cap Protocols)' = diagnoseProtocols(Config) \cap Protocols
        /\ bindingWarnings(Config.providers)' = bindingWarnings(Config.providers)
    BY <1>1, RequestSame, ChecksSame
  <1>3. azureEndpoint(Config)' = azureEndpoint(Config)
    BY <1>2 DEF azureEndpoint
  <1>5. AdapterInv'
    <2>1. request \in Deployments
      BY DEF StartInv, AdapterInv
    <2> QED
      BY <1>1, <1>2, <1>3, <2>1, Written DEF AdapterInv
  <1>6. stage' \in Stages
    BY DEF Stages, ContainerStages
  <1> QED
    BY <1>1, <1>2, <1>5, <1>6 DEF StartInv, TypeOK, AdapterInv, NameInv

\* A step of the start that passes, or ends it for a reason AcceptedServes knows.
LEMMA Goes ==
  ASSUME StartInv, NameInv', stage \in ContainerStages, stage' \in ContainerStages,
         UNCHANGED <<request, sandbox, nameVars, warned, bindings, env>>,
         ended' \in {"", "exited"},
         ended' = "exited" =>
           \/ Pack.big \/ ~Pack.loads
           \/ Pack.entry = None /\ Cardinality(Pack.prompts) # 1
           \/ \E n \in DOMAIN encodeToolSpecs : encodeToolSpecs[n] = "mistyped"
           \/ \E i \in DOMAIN bindings : bindings[i].model \in Alien
           \/ ~sandbox.writable
           \/ ~sandbox.credential,
         DOMAIN runtime' = DOMAIN Unbuilt, runtime'.store = runtime.store,
         DOMAIN runtime'.specs \subseteq DOMAIN env.tools, ContainerInv'
  PROVE  StartInv'
  <1>1. AdapterInv'
    BY EnvironmentStays
  <1>2. TypeOK'
    BY EnvironmentStays DEF StartInv, TypeOK
  <1>3. AcceptedServes'
    <2>1. Pack' = Pack /\ encodeToolSpecs' = encodeToolSpecs
      BY RequestSame
    <2> QED
      BY <2>1 DEF AcceptedServes
  <1> QED
    BY <1>1, <1>2, <1>3 DEF StartInv

\* What the runtime built so far.
LEMMA BuiltSoFar ==
  ASSUME StartInv
  PROVE  /\ DOMAIN runtime = DOMAIN Unbuilt
         /\ DOMAIN runtime.specs \subseteq DOMAIN env.tools
         /\ runtime.specs = IF stage \in {"voice", "store"} THEN env.tools ELSE <<>>
         /\ stage \in {"tools", "voice", "store"} =>
              runtime.primary = primaryBinding(env.providers)
  BY DEF StartInv, TypeOK, ContainerInv

LEMMA ReadKeeps ==
  ASSUME StartInv, NameInv', loadConfig \/ resolvePackFile \/ LoadPack
  PROVE  StartInv'
  <1>1. /\ stage \in {"config", "pack", "load"} /\ stage' \in {"config", "pack", "load", "agent"}
        /\ ended' \in {"", "exited"} /\ runtime' = runtime
        /\ UNCHANGED <<request, sandbox, nameVars, warned, bindings, env>>
        /\ ended' = "exited" => ~env.pack \/ ~sandbox.writable \/ ~Pack.loads
    BY DEF loadConfig, resolvePackFile, LoadPack, Step, Builds
  <1>2. stage \in ContainerStages /\ stage' \in ContainerStages
    BY <1>1 DEF ContainerStages
  <1>3. env.pack = ~Pack.big
    BY <1>2, Written
  <1>4. ContainerInv'
    BY <1>1, BuiltSoFar DEF ContainerInv
  <1> QED
    BY <1>1, <1>2, <1>3, <1>4, BuiltSoFar, Goes

LEMMA AgentKeeps ==
  ASSUME StartInv, NameInv', ResolveAgent
  PROVE  StartInv'
  <1> DEFINE name == resolveAgentName(Pack)
  <1>1. /\ stage = "agent" /\ stage' \in {"agent", "provider"}
        /\ ended' \in {"", "exited"}
        /\ runtime' \in {runtime, [runtime EXCEPT !.agent = name]}
        /\ UNCHANGED <<request, sandbox, nameVars, warned, bindings, env>>
        /\ ended' = "exited" => name = None
    BY DEF ResolveAgent, Step, Builds
  <1>2. stage \in ContainerStages /\ stage' \in ContainerStages
    BY <1>1 DEF ContainerStages
  <1>3. name = None => Pack.entry = None /\ Cardinality(Pack.prompts) # 1
    BY EntryOrOne DEF StartInv, AdapterInv
  <1>4. /\ DOMAIN runtime' = DOMAIN runtime /\ runtime'.store = runtime.store
        /\ runtime'.specs = runtime.specs
    BY <1>1, BuiltSoFar DEF Unbuilt
  <1>5. ContainerInv'
    BY <1>1, <1>4, BuiltSoFar DEF ContainerInv
  <1> HIDE DEF name
  <1> QED
    BY <1>1, <1>2, <1>3, <1>4, <1>5, BuiltSoFar, Goes

LEMMA ProviderKeeps ==
  ASSUME StartInv, NameInv', buildSDKOptions
  PROVE  StartInv'
  <1> DEFINE primary == primaryBinding(env.providers)
  <1>1. /\ stage = "provider" /\ stage' \in {"provider", "tools"}
        /\ ended' \in {"", "exited"}
        /\ IF stage' = "tools"
           THEN runtime' = [runtime EXCEPT !.primary = primary,
                                           !.tracing = setupTracing(env.tracing)]
           ELSE runtime' = runtime
        /\ UNCHANGED <<request, sandbox, nameVars, warned, bindings, env>>
        /\ ended' = "exited" => ~sandbox.credential \/ primary.model \in Alien
    BY DEF buildSDKOptions, Step, Builds
  <1>2. stage \in ContainerStages /\ stage' \in ContainerStages
    BY <1>1 DEF ContainerStages
  <1>3. \E i \in DOMAIN bindings : primary = bindings[i]
    BY <1>2, Written, PrimaryIsOne DEF StartInv, AdapterInv
  <1>4. /\ DOMAIN runtime' = DOMAIN runtime /\ runtime'.store = runtime.store
        /\ runtime'.specs = runtime.specs
        /\ stage' = "tools" => runtime'.primary = primary
    BY <1>1, BuiltSoFar DEF Unbuilt
  <1>5. ContainerInv'
    <2>1. primaryBinding(env.providers)' = primary
      BY <1>1, PrimarySame
    <2> QED
      BY <1>1, <1>4, <2>1, BuiltSoFar DEF ContainerInv
  <1> HIDE DEF primary
  <1>6. ended' = "exited" =>
          ~sandbox.credential \/ \E i \in DOMAIN bindings : bindings[i].model \in Alien
    BY <1>1, <1>3
  <1> QED
    BY <1>1, <1>2, <1>4, <1>5, <1>6, BuiltSoFar, Goes

LEMMA ToolsKeep ==
  ASSUME StartInv, NameInv', parseToolSpecs
  PROVE  StartInv'
  <1>1. /\ stage = "tools" /\ stage' \in {"tools", "voice"}
        /\ ended' \in {"", "exited"}
        /\ IF stage' = "voice" THEN runtime' = [runtime EXCEPT !.specs = env.tools]
                               ELSE runtime' = runtime
        /\ UNCHANGED <<request, sandbox, nameVars, warned, bindings, env>>
        /\ ended' = "exited" => \E n \in DOMAIN env.tools : env.tools[n] = "mistyped"
    BY DEF parseToolSpecs, Step, Builds
  <1>2. stage \in ContainerStages /\ stage' \in ContainerStages
    BY <1>1 DEF ContainerStages
  <1>3. env.tools = encodeToolSpecs
    BY <1>2, Written
  <1>4. /\ DOMAIN runtime' = DOMAIN runtime /\ runtime'.store = runtime.store
        /\ runtime'.specs = IF stage' = "voice" THEN env.tools ELSE <<>>
        /\ runtime'.primary = runtime.primary
    BY <1>1, BuiltSoFar DEF Unbuilt
  <1>5. DOMAIN runtime'.specs \subseteq DOMAIN env.tools
    BY <1>4, NothingIn
  <1>6. ContainerInv'
    <2>1. primaryBinding(env.providers)' = primaryBinding(env.providers)
      BY <1>1, PrimarySame
    <2> QED
      BY <1>1, <1>4, <2>1, BuiltSoFar DEF ContainerInv
  <1> QED
    BY <1>1, <1>2, <1>3, <1>4, <1>5, <1>6, BuiltSoFar, Goes

LEMMA VoiceKeeps ==
  ASSUME StartInv, NameInv', buildVoiceHandler
  PROVE  StartInv'
  <1> DEFINE voice == voiceEnabled(env.providers)
  <1>1. /\ stage = "voice" /\ stage' \in {"voice", "store"}
        /\ ended' \in {"", "exited"}
        /\ stage' = "store" => runtime' = [runtime EXCEPT !.voice = voice,
                                  !.audio = IF voice THEN env.endpoint ELSE None]
        /\ stage' = "voice" => runtime' = runtime
        /\ UNCHANGED <<request, sandbox, nameVars, warned, bindings, env>>
        /\ ended' = "exited" => ~sandbox.credential \/ env.endpoint = None
    BY DEF buildVoiceHandler, Step, Builds
  <1>2. stage \in ContainerStages /\ stage' \in ContainerStages
    BY <1>1 DEF ContainerStages
  <1>3. env.endpoint # None
    BY <1>2, Written, NoneAssumption DEF azureEndpoint
  <1> HIDE DEF voice
  <1>4. /\ DOMAIN runtime' = DOMAIN runtime /\ runtime'.store = runtime.store
        /\ runtime'.specs = runtime.specs /\ runtime'.primary = runtime.primary
        /\ stage' = "store" => /\ runtime'.voice = voice
                              /\ runtime'.audio = IF voice THEN env.endpoint ELSE None
    BY <1>1, BuiltSoFar DEF Unbuilt
  <1>5. ContainerInv'
    <2>2. voiceEnabled(env.providers)' = voice
      <3>1. env' = env
        BY <1>1
      <3>2. voiceEnabled(env.providers)' = voiceEnabled(env.providers)
        BY <3>1 DEF voiceEnabled, bindingForRole, FirstOf
      <3> QED
        BY <3>2 DEF voice
    <2>3. env' = env
      BY <1>1
    <2>4. primaryBinding(env.providers)' = primaryBinding(env.providers)
      BY <1>1, PrimarySame
    <2> QED
      BY <1>1, <1>4, <2>2, <2>3, <2>4, BuiltSoFar DEF ContainerInv
  <1> QED
    BY <1>1, <1>2, <1>3, <1>4, <1>5, BuiltSoFar, Goes

LEMMA StoreKeeps ==
  ASSUME StartInv, NameInv', newSessionStore
  PROVE  StartInv'
  <1> DEFINE store == buildSessionStore(env.store)
  <1>1. /\ stage = "store" /\ stage' = stage /\ ended' = "serving"
        /\ runtime' = [runtime EXCEPT !.store = store]
        /\ UNCHANGED <<request, sandbox, nameVars, warned, bindings, env>>
    BY DEF newSessionStore
  <1>2. stage \in ContainerStages /\ stage' \in ContainerStages
    BY <1>1 DEF ContainerStages
  <1>3. /\ validateStructure(Config) /\ env.store = addStateStoreEnv(Config.store)
    BY <1>2, Written
  <1>4. store \in Stores \cup {None}
    <2>1. env.store.kind \in {None, "file", "redis"}
      BY <1>3 DEF validateStructure, validateStateStore, addStateStoreEnv, NoStore, Stores
    <2>2. CASE env.store.kind = None
      BY <2>2, NoneAssumption DEF buildSessionStore, Stores
    <2>3. CASE env.store.kind = "file"
      BY <2>3, NoneAssumption DEF buildSessionStore, Stores
    <2>4. CASE env.store.kind = "redis"
      BY <2>4, NoneAssumption DEF buildSessionStore, Stores
    <2> QED
      BY <2>1, <2>2, <2>3, <2>4
  <1> HIDE DEF store
  <1>5. /\ DOMAIN runtime' = DOMAIN runtime /\ runtime'.store = store
        /\ runtime'.specs = runtime.specs /\ runtime'.voice = runtime.voice
        /\ runtime'.audio = runtime.audio /\ runtime'.primary = runtime.primary
    BY <1>1, BuiltSoFar DEF Unbuilt
  <1>6. AdapterInv'
    BY <1>1, <1>2, EnvironmentStays
  <1>7. ContainerInv'
    <2>2. voiceEnabled(env.providers)' = voiceEnabled(env.providers)
      BY <1>1 DEF voiceEnabled, bindingForRole, FirstOf
    <2>3. buildSessionStore(env.store)' = store
      BY <1>1 DEF store, buildSessionStore
    <2>4. /\ runtime.voice = voiceEnabled(env.providers)
          /\ runtime.audio = IF runtime.voice THEN env.endpoint ELSE None
      BY <1>1 DEF StartInv, ContainerInv
    <2>5. primaryBinding(env.providers)' = primaryBinding(env.providers)
      BY <1>1, PrimarySame
    <2> QED
      BY <1>1, <1>5, <2>2, <2>3, <2>4, <2>5, BuiltSoFar DEF ContainerInv
  <1>8. TypeOK'
    BY <1>1, <1>2, <1>4, <1>5, BuiltSoFar, EnvironmentStays DEF TypeOK
  <1>9. AcceptedServes'
    BY <1>1 DEF AcceptedServes
  <1> QED
    BY <1>6, <1>7, <1>8, <1>9 DEF StartInv

LEMMA StutterKeeps ==
  ASSUME StartInv, NameInv', UNCHANGED vars
  PROVE  StartInv'
  <1>1. /\ request' = request /\ sandbox' = sandbox /\ stage' = stage /\ ended' = ended
        /\ warned' = warned /\ bindings' = bindings /\ env' = env /\ runtime' = runtime
        /\ packId' = packId
    BY DEF vars, startVars, nameVars
  <1>2. /\ Config' = Config /\ Pack' = Pack /\ Resolved' = Resolved
        /\ encodeToolSpecs' = encodeToolSpecs
        /\ addStateStoreEnv(Config.store)' = addStateStoreEnv(Config.store)
        /\ validateStructure(Config)' <=> validateStructure(Config)
        /\ primaryBinding(Resolved)' = primaryBinding(Resolved)
        /\ (diagnoseProtocols(Config) \cap Protocols)' = diagnoseProtocols(Config) \cap Protocols
        /\ bindingWarnings(Config.providers)' = bindingWarnings(Config.providers)
    BY <1>1, RequestSame, ChecksSame
  <1>3. TypeOK'
    BY <1>1, <1>2 DEF StartInv, TypeOK, NameInv
  <1>4. AdapterInv'
    BY <1>1, <1>2 DEF StartInv, AdapterInv, Past, azureEndpoint
  <1>5. ContainerInv'
    <2>2. voiceEnabled(env.providers)' = voiceEnabled(env.providers)
      BY <1>1 DEF voiceEnabled, bindingForRole, FirstOf
    <2>3. buildSessionStore(env.store)' = buildSessionStore(env.store)
      BY <1>1 DEF buildSessionStore
    <2>4. primaryBinding(env.providers)' = primaryBinding(env.providers)
      BY <1>1, PrimarySame
    <2> QED
      BY <1>1, <2>2, <2>3, <2>4 DEF StartInv, ContainerInv
  <1>6. AcceptedServes'
    BY <1>1, <1>2 DEF StartInv, AcceptedServes
  <1> QED
    BY <1>3, <1>4, <1>5, <1>6 DEF StartInv

LEMMA StartInvariant == Spec => []StartInv
  <1>1. StartInv /\ NameInv' /\ [Next]_vars => StartInv'
    BY ValidateKeeps, PlanKeeps, NameKeeps, EnvKeeps, ReadKeeps, AgentKeeps, ProviderKeeps,
       ToolsKeep, VoiceKeeps, StoreKeeps, StutterKeeps DEF Next
  <1> QED
    BY <1>1, NameInitInv, NameNextInv, StartInitInv, PTL DEF Spec

-----------------------------------------------------------------------------
(***************************************************************************)
(* The theorems.                                                           *)
(***************************************************************************)

(* Every reachable state of a start is type correct.                       *)
THEOREM StartTypeCorrect == Spec => []TypeOK
  <1>1. StartInv => TypeOK
    BY DEF StartInv
  <1> QED
    BY <1>1, StartInvariant, PTL

(* What the adapter accepted stops its container only for the reasons that *)
(* AcceptedServes names, whatever the request and the sandbox.             *)
THEOREM AcceptedAlwaysServes == Spec => []AcceptedServes
  <1>1. StartInv => AcceptedServes
    BY DEF StartInv
  <1> QED
    BY <1>1, StartInvariant, PTL

\* What a serving container was built from.
LEMMA ServingFrom ==
  ASSUME StartInv, Serving
  PROVE  /\ validateStructure(Config)
         /\ env.providers = Resolved
         /\ env.endpoint = azureEndpoint(Config) /\ env.tools = encodeToolSpecs
         /\ env.store = addStateStoreEnv(Config.store)
         /\ warned # None => /\ warned.protocols = diagnoseProtocols(Config) \cap Protocols
                            /\ warned.primary = bindingWarnings(Config.providers)
         /\ runtime.primary = primaryBinding(Resolved)
         /\ runtime.specs = encodeToolSpecs
         /\ runtime.voice = voiceEnabled(Resolved)
         /\ runtime.audio = IF runtime.voice THEN azureEndpoint(Config) ELSE None
         /\ runtime.store = buildSessionStore(addStateStoreEnv(Config.store))
  <1>1. stage = "store" /\ runtime.store = buildSessionStore(env.store)
    BY DEF StartInv, ContainerInv, Serving
  <1>2. stage \in ContainerStages
    BY <1>1 DEF ContainerStages
  <1> QED
    BY <1>1, <1>2, Written DEF StartInv, ContainerInv

(* Whatever store is configured, the agent that serves keeps its           *)
(* conversations over text there, but for what only the runtime can find   *)
(* out.                                                                    *)
THEOREM AlwaysRemembersAsConfigured == Spec => []RemembersAsConfigured
  <1>1. ASSUME StartInv, Serving PROVE RemembersAsConfigured
    <2> DEFINE s == Config.store
    <2>1. /\ validateStateStore(s)
          /\ \A route \in TextRoutes :
               conversation(route).store = buildSessionStore(addStateStoreEnv(s))
      BY <1>1, ServingFrom DEF validateStructure, conversation, TextRoutes, Routes
    <2>2. CASE s.kind \in {None, "memory"}
      BY <2>1, <2>2, NoneAssumption
      DEF RemembersAsConfigured, addStateStoreEnv, NoStore, buildSessionStore
    <2>3. CASE s.kind = "file"
      BY <2>1, <2>3, NoneAssumption
      DEF RemembersAsConfigured, addStateStoreEnv, buildSessionStore
    <2>4. CASE s.kind = "redis"
      BY <2>1, <2>4, NoneAssumption
      DEF RemembersAsConfigured, addStateStoreEnv, buildSessionStore, validateStateStore
    <2> QED
      BY <2>1, <2>2, <2>3, <2>4 DEF validateStateStore, Stores
  <1>2. StartInv => RemembersAsConfigured
    BY <1>1 DEF RemembersAsConfigured
  <1> QED
    BY <1>2, StartInvariant, PTL

(* A declared protocol is served or was warned about, and a voice route is *)
(* served only where both halves of speech are bound and have an address,  *)
(* for every list of bindings.                                             *)
THEOREM RoutesAlwaysWork == Spec => []RoutesWork
  <1>1. ASSUME StartInv, Serving PROVE RoutesWork
    <2>1. /\ applyDefaults(Config) \subseteq Protocols
          /\ warned # None => warned.protocols = diagnoseProtocols(Config) \cap Protocols
      BY <1>1, ServingFrom DEF validateStructure
    <2>2. ASSUME runtime.voice
          PROVE  /\ {"stt", "tts"} \subseteq
                        {Config.providers[i].role : i \in DOMAIN Config.providers}
                 /\ runtime.audio # None
      <3>1. /\ {i \in DOMAIN Resolved : Resolved[i].role = "stt"} # {}
            /\ {i \in DOMAIN Resolved : Resolved[i].role = "tts"} # {}
        BY <1>1, <2>2, ServingFrom DEF voiceEnabled, bindingForRole, FirstOf
      <3>2. PICK i, j \in DOMAIN Resolved : Resolved[i].role = "stt" /\ Resolved[j].role = "tts"
        BY <3>1
      <3>3. Config.providers[i].role = "stt" /\ Config.providers[j].role = "tts"
        BY <3>2 DEF Resolved, resolveBinding
      <3>4. i \in DOMAIN Config.providers /\ j \in DOMAIN Config.providers
        BY DEF Resolved
      <3>5. runtime.audio # None
        BY <1>1, <2>2, ServingFrom, NoneAssumption DEF azureEndpoint
      <3> QED
        BY <3>3, <3>4, <3>5
    <2> QED
      BY <2>1, <2>2 DEF RoutesWork, Routes, diagnoseProtocols
  <1>2. StartInv => RoutesWork
    BY <1>1 DEF RoutesWork
  <1> QED
    BY <1>2, StartInvariant, PTL

(* Every tool the runtime supports arrives over text, however it was       *)
(* defined, and answers as it would in the arena, for any number of tools  *)
(* and files.                                                              *)
THEOREM ToolsAlwaysArrive == Spec => []ToolsArrive
  <1>1. ASSUME StartInv, Serving PROVE ToolsArrive
    <2> DEFINE tools == registerToolExecutors(encodeToolSpecs)
    <2>1. \A route \in TextRoutes : conversation(route).tools = tools
      BY <1>1, ServingFrom DEF conversation, TextRoutes, Routes
    <2>2. ASSUME NEW n \in DOMAIN encodeToolSpecs PROVE Answers(tools, n, encodeToolSpecs[n])
      <3> DEFINE tool == encodeToolSpecs[n]
      <3>1. n \in DOMAIN tools <=> tool \in Mocks \cup {"live"}
        BY <2>2 DEF registerToolExecutors
      <3>2. tool \in Mocks \cup {"live"} =>
              tools[n] = IF tool = "live" THEN "fetched" ELSE mockHandler(tool)
        BY <2>2 DEF registerToolExecutors
      <3> HIDE DEF tool, tools
      <3>3. /\ DOMAIN ArenaAnswers = Mocks \cup {"live"}
            /\ ArenaAnswers["live"] = "fetched"
            /\ \A t \in Mocks : ArenaAnswers[t] = mockHandler(t)
        BY DEF ArenaAnswers, Mocks, mockHandler
      <3>4. "live" \notin Mocks
        BY DEF Mocks
      <3>5. Answers(tools, n, tool)
        BY <3>1, <3>2, <3>3, <3>4 DEF Answers
      <3> QED
        BY <3>5 DEF tool
    <2>3. /\ DOMAIN encodeToolSpecs = DOMAIN Arena.tools \cup Named
          /\ \A n \in DOMAIN Arena.tools : encodeToolSpecs[n] = Arena.tools[n]
          /\ \A n \in Named \ DOMAIN Arena.tools : encodeToolSpecs[n] = FirstManifest(n)
      BY DEF encodeToolSpecs
    <2> HIDE DEF tools
    <2> QED
      BY <2>1, <2>2, <2>3 DEF ToolsArrive
  <1>2. StartInv => ToolsArrive
    BY <1>1 DEF ToolsArrive
  <1> QED
    BY <1>2, StartInvariant, PTL
\* Resolving leaves the bindings for a language model where they were.
LEMMA SameLLMs ==
  /\ LLMs(Resolved) = LLMs(Config.providers)
  /\ \A i \in DOMAIN Config.providers : Resolved[i].name = Config.providers[i].name
  BY NoneAssumption DEF LLMs, Resolved, resolveBinding

\* The binding that answers goes before every other.
LEMMA PrimaryGoesFirst ==
  ASSUME request \in Deployments, primaryBinding(Resolved) # None
  PROVE  \E i \in LLMs(Config.providers) :
           /\ primaryBinding(Resolved) = Resolved[i]
           /\ \A j \in LLMs(Config.providers) : GoesBefore(i, j)
  <1> DEFINE llms  == LLMs(Config.providers)
             named == {i \in llms : Config.providers[i].name = "default"}
             S     == IF named # {} THEN named ELSE llms
  <1>1. llms \subseteq DOMAIN Config.providers /\ DOMAIN Config.providers \subseteq Nat
    BY DeploymentAssumption DEF LLMs, Config
  <1>2. {i \in LLMs(Resolved) : Resolved[i].name = "default"} = named
    BY <1>1, SameLLMs
  <1>3. primaryBinding(Resolved) = FirstOf(Resolved, S)
    BY <1>2, SameLLMs DEF primaryBinding
  <1>4. S \subseteq llms /\ S \subseteq Nat
    BY <1>1
  <1> HIDE DEF S, llms
  <1>5. PICK i \in S : /\ primaryBinding(Resolved) = Resolved[i]
                       /\ \A j \in S : i <= j
    BY <1>3, <1>4, FirstIsOne
  <1>6. ASSUME NEW j \in llms PROVE GoesBefore(i, j)
    BY <1>5, <1>6 DEF GoesBefore, S
  <1> QED
    BY <1>4, <1>5, <1>6 DEF llms

\* Where the bindings are listed in the order of their names, validation
\* announces the first for a language model.
LEMMA AnnouncedIsFirst ==
  ASSUME request \in Deployments, InNameOrder,
         bindingWarnings(Config.providers) # None,
         NEW i \in LLMs(Config.providers),
         \A j \in LLMs(Config.providers) : GoesBefore(i, j)
  PROVE  bindingWarnings(Config.providers) = Config.providers[i].name
  <1> DEFINE P     == Config.providers
             llms  == {P[j].name : j \in LLMs(P)}
             First(k) == /\ NameOrder[k] \in llms
                         /\ \A j \in 1 .. k - 1 : NameOrder[j] \notin llms
  <1>1. LLMs(P) \subseteq DOMAIN P /\ DOMAIN P \subseteq Nat
    BY DeploymentAssumption DEF LLMs, Config
  <1>2. llms = {P[j].name : j \in {m \in DOMAIN P : P[m].role \in {None, "llm"}}}
    BY DEF LLMs
  <1>3. /\ \A j \in DOMAIN P : P[j].name # "default"
        /\ bindingWarnings(P) = NameOrder[CHOOSE k \in DOMAIN NameOrder : First(k)]
    BY <1>2 DEF bindingWarnings
  <1>4. \A j \in LLMs(P) : i <= j
    BY <1>1, <1>3 DEF GoesBefore
  <1>5. Len(NameOrder) \in Nat /\ DOMAIN NameOrder = 1 .. Len(NameOrder)
    BY OrderAssumption
  <1>6. PICK k \in DOMAIN NameOrder : NameOrder[k] = P[i].name
    BY <1>1, OrderAssumption DEF Config
  <1>7. ASSUME NEW l \in DOMAIN NameOrder, NameOrder[l] \in llms PROVE k <= l
    <2>1. PICK j \in LLMs(P) : NameOrder[l] = P[j].name
      BY <1>7
    <2>2. CASE j = i
      BY <1>5, <1>6, <2>1, <2>2, OrderAssumption
    <2>3. CASE i < j
      <3>1. PICK k1, l1 \in DOMAIN NameOrder :
              k1 <= l1 /\ NameOrder[k1] = P[i].name /\ NameOrder[l1] = P[j].name
        BY <1>1, <2>3 DEF InNameOrder
      <3>2. k1 = k /\ l1 = l
        BY <1>6, <2>1, <3>1, OrderAssumption
      <3> QED
        BY <3>1, <3>2
    <2> QED
      BY <1>1, <1>4, <2>2, <2>3
  <1>8. First(k)
    BY <1>5, <1>6, <1>7
  <1>9. ASSUME NEW l \in DOMAIN NameOrder, First(l) PROVE l = k
    BY <1>5, <1>6, <1>7, <1>9
  <1> HIDE DEF First
  <1>10. (CHOOSE l \in DOMAIN NameOrder : First(l)) = k
    BY <1>6, <1>8, <1>9
  <1> QED
    BY <1>3, <1>6, <1>10

(* The model that answers is the configured one, and the announced one     *)
(* where the order of the names allows, for any number of bindings.        *)
THEOREM ModelAlwaysAsConfigured == Spec => []ModelAsConfigured
  <1>1. ASSUME StartInv, Serving PROVE ModelAsConfigured
    <2>1. /\ request \in Deployments /\ runtime.primary = primaryBinding(Resolved)
          /\ warned # None => warned.primary = bindingWarnings(Config.providers)
      BY <1>1, ServingFrom DEF StartInv, AdapterInv
    <2>2. primaryBinding(Resolved) # None
      BY <1>1, Written DEF StartInv, ContainerInv, Serving, ContainerStages
    <2>3. PICK i \in LLMs(Config.providers) :
            /\ runtime.primary = Resolved[i]
            /\ \A j \in LLMs(Config.providers) : GoesBefore(i, j)
      BY <2>1, <2>2, PrimaryGoesFirst
    <2>4. /\ runtime.primary.name = Config.providers[i].name
          /\ runtime.primary.model = IF Config.providers[i].arena = None
                                     THEN Config.providers[i].model
                                     ELSE provider(Config.providers[i].arena)
      BY <2>3 DEF Resolved, resolveBinding, LLMs
    <2>5. warned # None /\ warned.primary # None /\ InNameOrder
            => runtime.primary.name = warned.primary
      BY <2>1, <2>3, <2>4, AnnouncedIsFirst
    <2> QED
      BY <2>3, <2>4, <2>5 DEF ModelAsConfigured
  <1>2. StartInv => ModelAsConfigured
    BY <1>1 DEF ModelAsConfigured
  <1> QED
    BY <1>2, StartInvariant, PTL

-----------------------------------------------------------------------------
(***************************************************************************)
(* The letters and digits of the name.                                     *)
(***************************************************************************)

LEMMA RankType ==
  ASSUME NEW s, NEW i \in Nat
  PROVE  /\ IsFiniteSet({k \in 1 .. i : s[k] \in Solid}) /\ Rank(s, i) \in Nat
         /\ Rank(s, 0) = 0
  <1>1. IsFiniteSet(1 .. i)
    BY FS_Interval
  <1>2. IsFiniteSet({k \in 1 .. i : s[k] \in Solid})
    BY <1>1, FS_Subset
  <1>3. {k \in 1 .. 0 : s[k] \in Solid} = {}
    OBVIOUS
  <1> QED
    BY <1>2, <1>3, FS_CardinalityType, FS_EmptySet DEF Rank

\* One rune more counts if it is a letter or a digit.
LEMMA RankNext ==
  ASSUME NEW s, NEW i \in Nat
  PROVE  Rank(s, i + 1) = Rank(s, i) + IF s[i + 1] \in Solid THEN 1 ELSE 0
  <1> DEFINE S(n) == {k \in 1 .. n : s[k] \in Solid}
  <1>1. IsFiniteSet(S(i)) /\ Rank(s, i) \in Nat
    BY RankType
  <1>4. i + 1 \notin S(i)
    OBVIOUS
  <1>2. CASE s[i + 1] \in Solid
    <2>1. S(i + 1) = S(i) \union {i + 1}
      BY <1>2
    <2> QED
      BY <1>1, <1>4, <1>2, <2>1, FS_AddElement DEF Rank
  <1>3. CASE s[i + 1] \notin Solid
    <2>1. S(i + 1) = S(i)
      BY <1>3
    <2> QED
      BY <1>1, <1>3, <2>1 DEF Rank
  <1> QED
    BY <1>2, <1>3

\* Two names that begin alike count alike there.
LEMMA RankSame ==
  ASSUME NEW s, NEW t, NEW i \in Nat, \A k \in 1 .. i : s[k] = t[k]
  PROVE  Rank(s, i) = Rank(t, i)
  <1>1. {k \in 1 .. i : s[k] \in Solid} = {k \in 1 .. i : t[k] \in Solid}
    OBVIOUS
  <1> QED
    BY <1>1 DEF Rank

\* What is no letter or digit does not count.
LEMMA RankRest ==
  ASSUME NEW s, NEW n \in Nat, NEW m \in Nat, n <= m,
         \A k \in n + 1 .. m : s[k] \notin Solid
  PROVE  Rank(s, m) = Rank(s, n)
  <1>1. {k \in 1 .. m : s[k] \in Solid} = {k \in 1 .. n : s[k] \in Solid}
    OBVIOUS
  <1> QED
    BY <1>1 DEF Rank

\* Where nothing was counted there is no letter or digit.
LEMMA RankNone ==
  ASSUME NEW s, NEW m \in Nat, Rank(s, m) = 0, NEW j \in 1 .. m
  PROVE  s[j] \notin Solid
  <1>1. IsFiniteSet({k \in 1 .. m : s[k] \in Solid})
    BY RankType
  <1>2. {k \in 1 .. m : s[k] \in Solid} = {}
    BY <1>1, FS_EmptySet DEF Rank
  <1> QED
    BY <1>2

\* A letter put in front counts for one everywhere.
LEMMA RankBehind ==
  ASSUME NEW s, NEW t, NEW n \in Nat, t[1] \in Solid,
         \A k \in 1 .. n : t[k + 1] = s[k],
         NEW i \in 0 .. n
  PROVE  Rank(t, i + 1) = Rank(s, i) + 1
  <1> DEFINE B == {k \in 0 .. n : Rank(t, k + 1) # Rank(s, k) + 1}
  <1>1. B = {}
    <2> SUFFICES ASSUME B # {} PROVE FALSE
      OBVIOUS
    <2>0. B \subseteq Nat
      OBVIOUS
    <2>1. PICK b \in B : \A j \in B : b <= j
      <3> HIDE DEF B
      <3> QED
        BY <2>0, LeastNat
    <2>4. b \in 0 .. n /\ Rank(t, b + 1) # Rank(s, b) + 1
      OBVIOUS
    <2>2. CASE b = 0
      <3>1. 0 \in Nat
        OBVIOUS
      <3>2. Rank(t, 0) = 0 /\ Rank(s, 0) = 0
        BY <3>1, RankType
      <3>3. Rank(t, 0 + 1) = Rank(t, 0) + IF t[0 + 1] \in Solid THEN 1 ELSE 0
        BY <3>1, RankNext
      <3>4. 0 + 1 = 1
        OBVIOUS
      <3> QED
        BY <2>2, <2>4, <3>2, <3>3, <3>4
    <2>3. CASE b # 0
      <3>1. b - 1 \in 0 .. n /\ b - 1 \in Nat /\ b \in Nat /\ (b - 1) + 1 = b /\ b \in 1 .. n
        BY <2>3, <2>4
      <3>6. b - 1 \notin B
        BY <2>1, <3>1
      <3>2. Rank(t, (b - 1) + 1) = Rank(s, b - 1) + 1
        BY <3>1, <3>6
      <3>3. Rank(s, (b - 1) + 1) = Rank(s, b - 1) + IF s[(b - 1) + 1] \in Solid THEN 1 ELSE 0
        BY <3>1, RankNext
      <3>4. Rank(t, b + 1) = Rank(t, b) + IF t[b + 1] \in Solid THEN 1 ELSE 0
        BY <3>1, RankNext
      <3>7. t[b + 1] = s[b]
        BY <3>1
      <3>5. Rank(s, b - 1) \in Nat
        BY <3>1, RankType
      <3> QED
        BY <2>4, <3>1, <3>2, <3>3, <3>4, <3>5, <3>7
    <2> QED
      BY <2>2, <2>3
  <1> QED
    BY <1>1

\* A name that begins like another follows the id as far as that does.
LEMMA FollowsPrefix ==
  ASSUME NEW s, NEW t, NEW n, NEW before \in Nat,
         Len(s) \in Nat, Len(t) \in 0 .. Len(s),
         \A k \in 1 .. Len(t) : t[k] = s[k],
         Follows(s, n, before)
  PROVE  Follows(t, n, before)
  <1> SUFFICES ASSUME NEW i \in before + 1 .. Len(t), t[i] # "hyphen"
               PROVE  \E j \in 1 .. n : /\ packId[j] \in Solid /\ t[i] = Folded(packId[j])
                                       /\ Rank(packId, j) + before = Rank(t, i)
    BY DEF Follows
  <1>1. i \in before + 1 .. Len(s) /\ i \in Nat /\ t[i] = s[i] /\ \A k \in 1 .. i : t[k] = s[k]
    OBVIOUS
  <1>2. Rank(t, i) = Rank(s, i)
    BY <1>1, RankSame
  <1> QED
    BY <1>1, <1>2 DEF Follows

LEMMA KeepInit == Init => KeepInv
  <1> SUFFICES ASSUME Init PROVE KeepInv
    OBVIOUS
  <1>1. taken = 0 /\ agentName = <<>> /\ ~nameDone
    BY DEF Init, NameInit
  <1>2. Len(agentName) = 0
    BY <1>1, EmptySeq
  <1>3. Rank(agentName, 0) = 0 /\ Rank(packId, 0) = 0
    <2>1. 0 \in Nat
      OBVIOUS
    <2> QED
      BY <2>1, RankType
  <1>4. Follows(agentName, taken, 0)
    BY <1>2 DEF Follows
  <1>5. NameKeepsId
    BY <1>1 DEF NameKeepsId
  <1> QED
    BY <1>1, <1>2, <1>3, <1>4, <1>5 DEF KeepInv

\* A rune is written behind the others or left out; only a letter or a digit
\* counts, in the id as in the name.
LEMMA FoldKeepsId ==
  ASSUME NameInv, KeepInv, FoldRune
  PROVE  KeepInv'
  <1> DEFINE r == ToLower(packId[taken + 1])
  <1>1. /\ packId \in Seq(Runes) /\ Len(packId) \in Nat
        /\ taken \in Nat /\ taken < Len(packId) /\ taken' = taken + 1
        /\ packId' = packId /\ ~nameDone /\ ~nameDone'
    BY LenProperties DEF NameInv, NameTypeOK, FoldRune
  <1>2. agentName \in Seq(Chars) /\ Len(agentName) \in Nat
    BY LenProperties DEF NameInv, NameTypeOK
  <1>3. Follows(agentName, taken, 0) /\ Rank(agentName, Len(agentName)) = Rank(packId, taken)
    BY <1>1 DEF KeepInv
  <1>4. Rank(packId, taken + 1)
          = Rank(packId, taken) + IF packId[taken + 1] \in Solid THEN 1 ELSE 0
    BY <1>1, RankNext
  <1>5. Rank(packId, taken) \in Nat
    BY <1>1, RankType
  <1>6. packId[taken + 1] \in Runes
    BY <1>1, ElementOfSeq
  <1>7. /\ r \in {"letter", "digit"} <=> packId[taken + 1] \in Solid
        /\ r \in {"letter", "digit"} => r = Folded(packId[taken + 1])
    BY <1>6 DEF ToLower, Solid, Folded, Runes
  <1>8. Follows(agentName, taken + 1, 0)
    BY <1>1, <1>3 DEF Follows
  <1>9. ASSUME NEW x \in Chars, agentName' = Append(agentName, x),
               x # "hyphen" <=> packId[taken + 1] \in Solid,
               x # "hyphen" => x = Folded(packId[taken + 1])
        PROVE  /\ Follows(agentName', taken + 1, 0)
               /\ Rank(agentName', Len(agentName')) = Rank(packId, taken + 1)
    <2>1. /\ Len(agentName') = Len(agentName) + 1
          /\ agentName'[Len(agentName) + 1] = x
          /\ \A i \in 1 .. Len(agentName) : agentName'[i] = agentName[i]
      BY <1>2, <1>9
    <2>2. Rank(agentName', Len(agentName) + 1)
            = Rank(agentName', Len(agentName)) + IF x \in Solid THEN 1 ELSE 0
      BY <1>2, <2>1, RankNext
    <2>3. \A i \in 0 .. Len(agentName) : Rank(agentName', i) = Rank(agentName, i)
      <3> SUFFICES ASSUME NEW i \in 0 .. Len(agentName)
                   PROVE  Rank(agentName', i) = Rank(agentName, i)
        OBVIOUS
      <3>1. i \in Nat /\ \A k \in 1 .. i : agentName'[k] = agentName[k]
        BY <1>2, <2>1
      <3> QED
        BY <3>1, RankSame
    <2>4. x \in Solid <=> packId[taken + 1] \in Solid
      BY <1>9 DEF Chars, Solid
    <2>5. Rank(agentName', Len(agentName)) = Rank(agentName, Len(agentName))
      BY <1>2, <2>3
    <2>6. Rank(agentName', Len(agentName) + 1) = Rank(packId, taken + 1)
      BY <1>3, <1>4, <2>2, <2>4, <2>5
    <2>7. ASSUME NEW i \in 1 .. Len(agentName'), agentName'[i] # "hyphen"
          PROVE  \E j \in 1 .. taken + 1 :
                   /\ packId[j] \in Solid /\ agentName'[i] = Folded(packId[j])
                   /\ Rank(packId, j) + 0 = Rank(agentName', i)
      <3>1. CASE i \in 1 .. Len(agentName)
        <4>1. agentName'[i] = agentName[i] /\ Rank(agentName', i) = Rank(agentName, i)
          BY <1>2, <2>1, <2>3, <3>1
        <4> QED
          BY <1>8, <2>7, <3>1, <4>1 DEF Follows
      <3>2. CASE i = Len(agentName) + 1
        <4>1. packId[taken + 1] \in Solid /\ agentName'[i] = Folded(packId[taken + 1])
          BY <1>9, <2>1, <2>7, <3>2
        <4>2. Rank(packId, taken + 1) \in Nat /\ taken + 1 \in 1 .. taken + 1
          BY <1>1, <1>4, <1>5
        <4> QED
          BY <2>6, <3>2, <4>1, <4>2
      <3> QED
        BY <1>2, <2>1, <3>1, <3>2
    <2> QED
      BY <2>1, <2>6, <2>7 DEF Follows
  <1>10. /\ Follows(agentName', taken + 1, 0)
         /\ Rank(agentName', Len(agentName')) = Rank(packId, taken + 1)
    <2>1. CASE r \in {"letter", "digit"} /\ agentName' = Append(agentName, r)
      BY <1>7, <1>9, <2>1 DEF Chars
    <2>2. CASE r = "separator" /\ agentName' = Append(agentName, "hyphen")
      BY <1>7, <1>9, <2>2 DEF Chars
    <2>3. CASE r \notin {"letter", "digit"} /\ agentName' = agentName
      BY <1>3, <1>4, <1>5, <1>7, <1>8, <2>3
    <2> QED
      BY <2>1, <2>2, <2>3 DEF FoldRune
  <1>11. NameKeepsId'
    BY <1>1 DEF NameKeepsId
  <1>12. Follows(agentName, taken, 0)'
    BY <1>1, <1>10 DEF Follows
  <1>13. (Rank(agentName, Len(agentName)) = Rank(packId, taken))'
    BY <1>1, <1>10
  <1> QED
    BY <1>1, <1>11, <1>12, <1>13 DEF KeepInv

\* A letter before the name moves what it has of the id by one.
LEMMA PrefixedFollows ==
  ASSUME NEW t \in Seq(Chars), t # <<>>, t[1] # "hyphen", NEW n \in Nat, Follows(t, n, 0)
  PROVE  LET p      == Prefixed(t)
             before == IF t[1] = "digit" THEN 1 ELSE 0
         IN /\ Follows(p, n, before)
            /\ Rank(p, Len(p)) = Rank(t, Len(t)) + before
  <1>1. Len(t) \in Nat /\ Len(t) > 0
    BY LenProperties, EmptySeq
  <1>2. Rank(t, Len(t)) \in Nat
    BY <1>1, RankType
  <1>3. CASE t[1] # "digit"
    BY <1>2, <1>3 DEF Prefixed
  <1>4. CASE t[1] = "digit"
    <2> DEFINE p == <<"letter">> \o t
    <2>1. Prefixed(t) = p
      BY <1>4 DEF Prefixed
    <2>2. <<"letter">> \in Seq(Chars) /\ Len(<<"letter">>) = 1 /\ <<"letter">>[1] = "letter"
      BY DEF Chars
    <2>3. /\ p \in Seq(Chars) /\ Len(p) = 1 + Len(t)
          /\ \A i \in 1 .. 1 + Len(t) : p[i] = IF i <= 1 THEN <<"letter">>[i] ELSE t[i - 1]
      BY <2>2, ConcatProperties
    <2> HIDE DEF p
    <2>4. p[1] \in Solid /\ \A k \in 1 .. Len(t) : p[k + 1] = t[k]
      BY <1>1, <2>2, <2>3 DEF Solid
    <2>5. \A i \in 0 .. Len(t) : Rank(p, i + 1) = Rank(t, i) + 1
      BY <1>1, <2>4, RankBehind
    <2>6. Rank(p, Len(p)) = Rank(t, Len(t)) + 1
      <3>1. Len(t) \in 0 .. Len(t) /\ Len(t) + 1 = Len(p)
        BY <1>1, <2>3
      <3> QED
        BY <2>5, <3>1
    <2>7. ASSUME NEW i \in 2 .. Len(p), p[i] # "hyphen"
          PROVE  \E j \in 1 .. n : /\ packId[j] \in Solid /\ p[i] = Folded(packId[j])
                                  /\ Rank(packId, j) + 1 = Rank(p, i)
      <3>1. i - 1 \in 1 .. Len(t) /\ i - 1 \in 0 .. Len(t) /\ (i - 1) + 1 = i
        BY <1>1, <2>3
      <3>2. p[i] = t[i - 1] /\ Rank(p, i) = Rank(t, i - 1) + 1
        BY <2>4, <2>5, <3>1
      <3>3. PICK j \in 1 .. n : /\ packId[j] \in Solid /\ t[i - 1] = Folded(packId[j])
                               /\ Rank(packId, j) + 0 = Rank(t, i - 1)
        BY <2>7, <3>1, <3>2 DEF Follows
      <3>4. i - 1 \in Nat /\ j \in Nat
        BY <3>1
      <3>5. Rank(t, i - 1) \in Nat /\ Rank(packId, j) \in Nat
        BY <3>4, RankType
      <3> QED
        BY <3>2, <3>3, <3>5
    <2>8. Follows(p, n, 1)
      BY <2>7 DEF Follows
    <2> QED
      BY <1>4, <2>1, <2>6, <2>8
  <1> QED
    BY <1>3, <1>4

\* The cut takes the end of the name, and only of one that is too long.
LEMMA CutShortens ==
  ASSUME NEW p \in Seq(Chars), Neat(p)
  PROVE  /\ Len(Cut(p)) \in 0 .. Len(p)
         /\ \A k \in 1 .. Len(Cut(p)) : Cut(p)[k] = p[k]
         /\ Len(Cut(p)) < MaxAgentNameLength - 1 => Cut(p) = p
         /\ p # <<>> => Cut(p) # <<>>
  <1>1. Len(p) \in Nat /\ MaxAgentNameLength \in Nat /\ MaxAgentNameLength >= 5
    BY LenProperties, LengthAssumption
  <1>2. CASE Len(p) > MaxAgentNameLength
    <2> DEFINE q == SubSeq(p, 1, MaxAgentNameLength)
    <2>1. /\ q \in Seq(Chars) /\ Len(q) = MaxAgentNameLength /\ Neat(q)
          /\ \A k \in 1 .. MaxAgentNameLength : q[k] = p[k]
      BY <1>1, <1>2, PrefixNeat
    <2>2. Cut(p) = TrimRight(q)
      BY <1>2 DEF Cut
    <2> HIDE DEF q
    <2>3. PICK m \in 0 .. Len(q) :
            /\ m >= Len(q) - 1 /\ Len(TrimRight(q)) = m
            /\ \A k \in 1 .. m : TrimRight(q)[k] = q[k]
      BY <2>1, TrimRightCuts
    <2>4. q # <<>>
      BY <1>1, <2>1, EmptySeq
    <2>5. Cut(p) # <<>>
      BY <2>1, <2>2, <2>4, TrimRightNeat
    <2> QED
      BY <1>1, <1>2, <2>1, <2>2, <2>3, <2>5
  <1>3. CASE Len(p) <= MaxAgentNameLength
    <2>1. Cut(p) = p
      BY <1>1, <1>3 DEF Cut
    <2> QED
      BY <1>1, <2>1
  <1> QED
    BY <1>1, <1>2, <1>3

\* The repairs take no letter or digit, but for the cut, and add none but the
\* letter before a digit.
LEMMA SanitizeKeepsId ==
  ASSUME NameInv, KeepInv, sanitizeAgentName
  PROVE  KeepInv'
  <1> DEFINE t == Trim(agentName)
             p == Prefixed(t)
             c == Cut(p)
             n == Len(packId)
  <1>1. /\ agentName \in Seq(Chars) /\ Neat(agentName) /\ Len(agentName) \in Nat
        /\ packId \in Seq(Runes) /\ n \in Nat
    BY LenProperties DEF NameInv, NameTypeOK
  <1>2. /\ taken = n /\ ~nameDone /\ nameDone' /\ packId' = packId
        /\ agentName' = IF t = <<>> THEN fallbackAgentName ELSE OrFallback(c)
    BY DEF sanitizeAgentName
  <1>3. Follows(agentName, n, 0) /\ Rank(agentName, Len(agentName)) = Rank(packId, n)
    BY <1>2 DEF KeepInv
  <1>4. PICK m \in 0 .. Len(agentName) :
          /\ \A k \in m + 1 .. Len(agentName) : agentName[k] = "hyphen"
          /\ Len(t) = m
          /\ \A k \in 1 .. m : t[k] = agentName[k]
    BY <1>1, TrimLeftNeat, TrimRightCuts DEF Trim
  <1>5. t \in Seq(Chars) /\ Neat(t)
    BY <1>1, TrimLeftNeat, TrimRightNeat DEF Trim
  <1> HIDE DEF t
  <1>6. Follows(t, n, 0)
    BY <1>1, <1>3, <1>4, FollowsPrefix
  <1>7. Rank(t, Len(t)) = Rank(packId, n)
    <2>1. Rank(t, m) = Rank(agentName, m)
      BY <1>1, <1>4, RankSame
    <2>2. \A k \in m + 1 .. Len(agentName) : agentName[k] \notin Solid
      BY <1>4 DEF Solid
    <2>3. m \in Nat /\ m <= Len(agentName)
      BY <1>1, <1>4
    <2>4. Rank(agentName, Len(agentName)) = Rank(agentName, m)
      BY <1>1, <2>2, <2>3, RankRest
    <2> QED
      BY <1>3, <1>4, <2>1, <2>4
  <1>8. CASE t = <<>>
    <2>1. Rank(packId, n) = 0
      <3>1. Len(t) = 0 /\ 0 \in Nat
        BY <1>8, EmptySeq
      <3> QED
        BY <1>7, <3>1, RankType
    <2>2. \A j \in 1 .. n : packId[j] \notin Solid
      BY <1>1, <2>1, RankNone
    <2>3. NameKeepsId'
      BY <1>2, <1>8, <2>2 DEF NameKeepsId
    <2> QED
      BY <1>2, <2>3 DEF KeepInv
  <1>9. CASE t # <<>>
    <2>1. Len(t) \in Nat /\ Len(t) > 0 /\ t[1] \in Chars /\ t[1] # "hyphen"
      BY <1>5, <1>9, EmptySeq, LenProperties, ElementOfSeq DEF Neat
    <2>2. Rank(t, 1) = 1
      <3>1. 0 \in Nat /\ 0 + 1 = 1 /\ t[1] \in Solid
        BY <2>1 DEF Chars, Solid
      <3>2. Rank(t, 0 + 1) = Rank(t, 0) + IF t[0 + 1] \in Solid THEN 1 ELSE 0
        BY <3>1, RankNext
      <3>3. Rank(t, 0) = 0
        BY <3>1, RankType
      <3> QED
        BY <3>1, <3>2, <3>3
    <2>3. PICK f \in 1 .. n : /\ packId[f] \in Solid /\ t[1] = Folded(packId[f])
                            /\ Rank(packId, f) + 0 = Rank(t, 1)
      BY <1>6, <2>1 DEF Follows
    <2>4. Rank(packId, f) = 1
      <3>1. f \in Nat
        OBVIOUS
      <3>2. Rank(packId, f) \in Nat
        BY <3>1, RankType
      <3> QED
        BY <2>2, <2>3, <3>2
    <2> DEFINE before == IF packId[f] = "digit" THEN 1 ELSE 0
    <2>5. before = IF t[1] = "digit" THEN 1 ELSE 0
      BY <2>3 DEF Folded
    <2>6. Follows(p, n, before) /\ Rank(p, Len(p)) = Rank(packId, n) + before
      BY <1>5, <1>6, <1>7, <1>9, <2>1, <2>5, PrefixedFollows
    <2>7. p \in Seq(Chars) /\ Neat(p) /\ p # <<>>
      BY <1>5, <1>9, <2>1, PrefixedNeat
    <2> HIDE DEF p
    <2>8. /\ Len(c) \in 0 .. Len(p) /\ \A k \in 1 .. Len(c) : c[k] = p[k]
          /\ Len(c) < MaxAgentNameLength - 1 => c = p
          /\ c # <<>> /\ Len(p) \in Nat
      BY <2>7, CutShortens, LenProperties
    <2> HIDE DEF c
    <2>9. agentName' = c
      BY <1>2, <1>9, <2>8 DEF OrFallback
    <2>10. before \in Nat
      OBVIOUS
    <2>11. Follows(c, n, before)
      BY <2>6, <2>8, <2>10, FollowsPrefix
    <2>12. Len(c) < MaxAgentNameLength - 1 => Rank(c, Len(c)) = Rank(packId, n) + before
      BY <2>6, <2>8
    <2>13. Follows(agentName, Len(packId), before)'
      BY <1>2, <2>9, <2>11 DEF Follows
    <2>14. NameKeepsId'
      BY <1>2, <2>3, <2>4, <2>9, <2>12, <2>13 DEF NameKeepsId
    <2> QED
      BY <1>2, <2>14 DEF KeepInv
  <1> QED
    BY <1>8, <1>9

LEMMA KeepNext == NameInv /\ KeepInv /\ [Next]_vars => KeepInv'
  <1> SUFFICES ASSUME NameInv, KeepInv, [Next]_vars PROVE KeepInv'
    OBVIOUS
  <1>1. CASE FoldRune
    BY <1>1, FoldKeepsId
  <1>2. CASE sanitizeAgentName
    BY <1>2, SanitizeKeepsId
  <1>3. CASE UNCHANGED nameVars
    BY <1>3 DEF nameVars, KeepInv, NameKeepsId, Follows
  <1> QED
    BY <1>1, <1>2, <1>3, NameSteps

(***************************************************************************)
(* NameKeepsId: whatever the id of the pack, however long, and whatever    *)
(* the limit, the agent's name has the id's letters and digits in their    *)
(* order, and misses none unless it was cut.                               *)
(***************************************************************************)
THEOREM NameAlwaysKeepsId == Spec => []NameKeepsId
  <1>1. KeepInv => NameKeepsId
    BY DEF KeepInv
  <1>2. Spec => []NameInv
    BY NameInitInv, NameNextInv, PTL DEF Spec
  <1> QED
    BY <1>1, <1>2, KeepInit, KeepNext, PTL DEF Spec
=============================================================================
