-------------------------- MODULE AgentSetup_proofs --------------------------
(***************************************************************************)
(* Theorems about AgentSetup, for every set of variables and any number of *)
(* commands, edits and interrupts.                                         *)
(***************************************************************************)
EXTENDS AgentSetup, SequenceTheorems, FiniteSetTheorems, TLAPS

-----------------------------------------------------------------------------
(* Texts *)

(* The block of a text with a wrapper: its first line is in it, and its    *)
(* last not before.                                                        *)
LEMMA BlockOf ==
    ASSUME NEW text \in Seq(Tokens),
           \E b \in First(text, "begin", 1) : First(text, "end", b) # {}
    PROVE  \E b, e \in 1 .. Len(text) :
              /\ text[b] = "begin" /\ text[e] = "end" /\ b <= e
              /\ b \in First(text, "begin", 1)
              /\ e \in First(text, "end", b)
              /\ StripMarkedBlock(text) =
                    Without(text, IF At(text, b - 1, "break") THEN b - 1 ELSE b,
                                  IF At(text, e + 1, "break") THEN e + 1 ELSE e)
<1> DEFINE b == CHOOSE i \in First(text, "begin", 1) : TRUE
           e == CHOOSE i \in First(text, "end", b) : TRUE
<1>1. PICK c \in First(text, "begin", 1) : First(text, "end", c) # {}
  OBVIOUS
<1>2. Len(text) \in Nat
  OBVIOUS
<1>3. b \in First(text, "begin", 1)
  BY <1>1
<1>4. b = c
  <2>1. /\ b \in 1 .. Len(text) /\ text[b] = "begin"
        /\ \A j \in 1 .. b - 1 : text[j] # "begin"
    BY <1>3 DEF First
  <2>2. /\ c \in 1 .. Len(text) /\ text[c] = "begin"
        /\ \A j \in 1 .. c - 1 : text[j] # "begin"
    BY <1>1 DEF First
  <2> HIDE DEF b
  <2>3. ~ (b < c) /\ ~ (c < b)
    BY <1>2, <2>1, <2>2
  <2> QED
    BY <1>2, <2>1, <2>2, <2>3
<1>5. e \in First(text, "end", b)
  BY <1>1, <1>4
<1>6. StripMarkedBlock(text) =
         Without(text, IF At(text, b - 1, "break") THEN b - 1 ELSE b,
                       IF At(text, e + 1, "break") THEN e + 1 ELSE e)
  BY DEF StripMarkedBlock
<1> HIDE DEF b, e
<1>7. /\ b \in 1 .. Len(text) /\ text[b] = "begin"
      /\ e \in b .. Len(text) /\ text[e] = "end"
  BY <1>3, <1>5 DEF First
<1>8. e \in 1 .. Len(text) /\ b <= e
  BY <1>2, <1>7
<1> QED
  BY <1>3, <1>5, <1>6, <1>7, <1>8

(* What is left of a text without the places from b to e. *)
LEMMA WithoutContents ==
    ASSUME NEW text \in Seq(Tokens), NEW b \in Nat, NEW e \in Nat,
           b >= 1, b <= e + 1, e <= Len(text)
    PROVE  /\ Without(text, b, e) \in Seq(Tokens)
           /\ Len(Without(text, b, e)) = Len(text) - (e - b + 1)
           /\ \A i \in 1 .. b - 1 : Without(text, b, e)[i] = text[i]
           /\ \A i \in b .. Len(text) - (e - b + 1) :
                 Without(text, b, e)[i] = text[i + (e - b + 1)]
<1> DEFINE s == SubSeq(text, 1, b - 1)
           t == SubSeq(text, e + 1, Len(text))
<1>1. Len(text) \in Nat /\ \A i \in 1 .. Len(text) : text[i] \in Tokens
  OBVIOUS
<1>2. /\ s \in Seq(Tokens) /\ Len(s) = b - 1
      /\ \A i \in 1 .. b - 1 : s[i] = text[i]
  <2>1. \A i \in 1 .. b - 1 : text[i] \in Tokens
    BY <1>1
  <2>2. /\ SubSeq(text, 1, b - 1) \in Seq(Tokens)
        /\ Len(SubSeq(text, 1, b - 1)) = IF 1 <= b - 1 THEN (b - 1) - 1 + 1 ELSE 0
        /\ \A i \in 1 .. (b - 1) - 1 + 1 :
              SubSeq(text, 1, b - 1)[i] = text[1 + i - 1]
    BY <2>1, SubSeqProperties
  <2> QED
    BY <2>2
<1>3. /\ t \in Seq(Tokens) /\ Len(t) = Len(text) - e
      /\ \A i \in 1 .. Len(text) - e : t[i] = text[e + i]
  <2>1. \A i \in e + 1 .. Len(text) : text[i] \in Tokens
    BY <1>1
  <2>2. /\ t \in Seq(Tokens)
        /\ Len(t) = IF e + 1 <= Len(text) THEN Len(text) - (e + 1) + 1 ELSE 0
        /\ \A i \in 1 .. Len(text) - (e + 1) + 1 : t[i] = text[(e + 1) + i - 1]
    BY <1>1, <2>1, SubSeqProperties
  <2> QED
    BY <1>1, <2>2
<1> HIDE DEF s, t
<1>4. Without(text, b, e) = s \o t
  BY DEF Without, s, t
<1>5. /\ s \o t \in Seq(Tokens)
      /\ Len(s \o t) = Len(s) + Len(t)
      /\ \A i \in 1 .. Len(s) + Len(t) :
            (s \o t)[i] = IF i <= Len(s) THEN s[i] ELSE t[i - Len(s)]
  BY <1>2, <1>3, ConcatProperties
<1> DEFINE r == s \o t
<1> HIDE DEF r
<1>6. /\ r \in Seq(Tokens)
      /\ Len(r) = Len(text) - (e - b + 1)
      /\ \A i \in 1 .. Len(r) : r[i] = IF i <= b - 1 THEN s[i] ELSE t[i - (b - 1)]
  BY <1>1, <1>2, <1>3, <1>5 DEF r
<1>7. ASSUME NEW i \in 1 .. b - 1 PROVE r[i] = text[i]
  BY <1>1, <1>2, <1>6
<1>8. ASSUME NEW i \in b .. Len(text) - (e - b + 1)
      PROVE  r[i] = text[i + (e - b + 1)]
  <2>1. /\ i - (b - 1) \in 1 .. Len(text) - e
        /\ e + (i - (b - 1)) = i + (e - b + 1)
        /\ i \in 1 .. Len(r) /\ ~ (i <= b - 1)
    BY <1>1, <1>6, <1>8
  <2> QED
    BY <1>3, <1>6, <2>1
<1> QED
  BY <1>4, <1>6, <1>7, <1>8 DEF r

(* Stripping, completing the last line and adding a wrapper make texts. *)
LEMMA TextTypes ==
    ASSUME NEW text \in Seq(Tokens)
    PROVE  /\ StripMarkedBlock(text) \in Seq(Tokens)
           /\ WholeLines(text) \in Seq(Tokens)
           /\ WithWrapper(text) \in Seq(Tokens)
<1>1. ASSUME NEW t \in Seq(Tokens) PROVE StripMarkedBlock(t) \in Seq(Tokens)
  <2>1. CASE \E b \in First(t, "begin", 1) : First(t, "end", b) # {}
    <3>1. PICK b, e \in 1 .. Len(t) :
             /\ b <= e
             /\ StripMarkedBlock(t) =
                   Without(t, IF At(t, b - 1, "break") THEN b - 1 ELSE b,
                              IF At(t, e + 1, "break") THEN e + 1 ELSE e)
      BY <2>1, BlockOf
    <3> DEFINE c == IF At(t, b - 1, "break") THEN b - 1 ELSE b
               f == IF At(t, e + 1, "break") THEN e + 1 ELSE e
    <3>2. /\ c \in Nat /\ f \in Nat /\ c >= 1 /\ c <= f + 1 /\ f <= Len(t)
      <4>1. Len(t) \in Nat /\ DOMAIN t = 1 .. Len(t)
        OBVIOUS
      <4>2. c \in Nat /\ c >= 1 /\ c <= b
        BY <4>1 DEF At
      <4>3. f \in Nat /\ f >= e /\ f <= Len(t)
        BY <4>1 DEF At
      <4> HIDE DEF c, f
      <4> QED
        BY <3>1, <4>1, <4>2, <4>3
    <3> HIDE DEF c, f
    <3>3. Without(t, c, f) \in Seq(Tokens)
      BY <3>2, WithoutContents
    <3> QED
      BY <3>1, <3>3 DEF c, f
  <2>2. CASE ~ \E b \in First(t, "begin", 1) : First(t, "end", b) # {}
    BY <2>2 DEF StripMarkedBlock
  <2> QED
    BY <2>1, <2>2
<1>2. ASSUME NEW t \in Seq(Tokens) PROVE WholeLines(t) \in Seq(Tokens)
  <2>1. "break" \in Tokens
    BY DEF Tokens
  <2> QED
    BY <2>1, AppendProperties DEF WholeLines
<1>3. /\ <<"break">> \in Seq(Tokens)
      /\ Wrapper \in Seq(Tokens)
  BY DEF Tokens, Wrapper
<1>4. WithWrapper(text) \in Seq(Tokens)
  <2>1. WholeLines(StripMarkedBlock(text)) \in Seq(Tokens)
    BY <1>1, <1>2
  <2>2. WholeLines(StripMarkedBlock(text)) \o <<"break">> \in Seq(Tokens)
    BY <1>3, <2>1, ConcatProperties
  <2> QED
    BY <1>3, <2>2, ConcatProperties DEF WithWrapper
<1> QED
  BY <1>1, <1>2, <1>4

(* Where a line of a text begins, what is before it ends its line.         *)
LEMMA LineStart ==
    ASSUME NEW text \in Seq(Tokens), NEW i \in LineStarts(text)
    PROVE  /\ SubSeq(text, 1, i - 1) \in Seq(Tokens)
           /\ SubSeq(text, i, Len(text)) \in Seq(Tokens)
           /\ SubSeq(text, i + 1, Len(text)) \in Seq(Tokens)
           /\ text = SubSeq(text, 1, i - 1) \o SubSeq(text, i, Len(text))
           /\ EndsLine(SubSeq(text, 1, i - 1))
           /\ At(text, i, "break") =>
                 SubSeq(text, i, Len(text)) =
                    <<"break">> \o SubSeq(text, i + 1, Len(text))
<1>1. /\ Len(text) \in Nat /\ DOMAIN text = 1 .. Len(text)
      /\ \A j \in 1 .. Len(text) : text[j] \in Tokens
  OBVIOUS
<1>2. /\ i \in 1 .. Len(text) + 1 /\ i \in Nat
      /\ i = 1 \/ (i - 1 \in 1 .. Len(text) /\ text[i - 1] = "break")
  BY <1>1 DEF LineStarts, At
<1>3. ASSUME NEW a \in Int, NEW b \in Int, a >= 1, b <= Len(text)
      PROVE  /\ SubSeq(text, a, b) \in Seq(Tokens)
             /\ Len(SubSeq(text, a, b)) = IF a <= b THEN b - a + 1 ELSE 0
             /\ \A j \in 1 .. b - a + 1 : SubSeq(text, a, b)[j] = text[a + j - 1]
  <2>1. \A j \in a .. b : text[j] \in Tokens
    BY <1>1, <1>3
  <2> QED
    BY <2>1, SubSeqProperties
<1>4. /\ SubSeq(text, 1, i - 1) \in Seq(Tokens)
      /\ SubSeq(text, i, Len(text)) \in Seq(Tokens)
      /\ SubSeq(text, i + 1, Len(text)) \in Seq(Tokens)
  BY <1>1, <1>2, <1>3
<1>5. text = SubSeq(text, 1, i - 1) \o SubSeq(text, i, Len(text))
  <2>1. /\ 1 \in 1 .. Len(text) + 1 /\ i - 1 \in 1 - 1 .. Len(text)
        /\ Len(text) \in i - 1 .. Len(text) /\ (i - 1) + 1 = i
    BY <1>1, <1>2
  <2>2. SubSeq(text, 1, i - 1) \o SubSeq(text, (i - 1) + 1, Len(text)) =
           SubSeq(text, 1, Len(text))
    BY <2>1, ConcatAdjacentSubSeq
  <2> QED
    BY <2>1, <2>2, SubSeqFull
<1>6. EndsLine(SubSeq(text, 1, i - 1))
  <2> DEFINE s == SubSeq(text, 1, i - 1)
  <2>1. CASE i = 1
    <3>1. s = <<>>
      BY <2>1, SubSeqEmpty
    <3> QED
      BY <3>1 DEF EndsLine
  <2>2. CASE i # 1
    <3>1. i - 1 \in 1 .. Len(text) /\ text[i - 1] = "break"
      BY <1>2, <2>2
    <3>2. /\ s \in Seq(Tokens)
          /\ Len(s) = IF 1 <= i - 1 THEN (i - 1) - 1 + 1 ELSE 0
          /\ \A j \in 1 .. (i - 1) - 1 + 1 : s[j] = text[1 + j - 1]
      BY <1>1, <1>2, <1>3, <3>1
    <3> HIDE DEF s
    <3>3. /\ Len(s) = i - 1 /\ i - 1 \in 1 .. (i - 1) - 1 + 1
          /\ 1 + (i - 1) - 1 = i - 1
      BY <1>1, <1>2, <3>1, <3>2
    <3>4. s[i - 1] = text[1 + (i - 1) - 1]
      BY <3>2, <3>3
    <3>5. i - 1 \in DOMAIN s
      BY <1>1, <3>1, <3>2, <3>3
    <3> QED
      BY <3>1, <3>3, <3>4, <3>5 DEF EndsLine, At
  <2> QED
    BY <2>1, <2>2
<1>7. ASSUME At(text, i, "break")
      PROVE  SubSeq(text, i, Len(text)) =
                <<"break">> \o SubSeq(text, i + 1, Len(text))
  <2>1. i \in 1 .. Len(text) /\ text[i] = "break"
    BY <1>1, <1>7 DEF At
  <2>2. /\ i \in 1 .. Len(text) + 1 /\ i \in i - 1 .. Len(text)
        /\ Len(text) \in i .. Len(text)
    BY <1>1, <1>2, <2>1
  <2>3. SubSeq(text, i, i) \o SubSeq(text, i + 1, Len(text)) =
           SubSeq(text, i, Len(text))
    BY <2>2, ConcatAdjacentSubSeq
  <2>4. SubSeq(text, i, i) = <<"break">>
    <3> DEFINE one == SubSeq(text, i, i)
               two == <<"break">>
    <3>1. /\ one \in Seq(Tokens)
          /\ Len(one) = IF i <= i THEN i - i + 1 ELSE 0
          /\ \A j \in 1 .. i - i + 1 : one[j] = text[i + j - 1]
      BY <1>1, <1>2, <1>3, <2>1
    <3>2. two \in Seq(Tokens) /\ Len(two) = 1 /\ two[1] = "break"
      BY DEF Tokens
    <3> HIDE DEF one, two
    <3>3. Len(one) = 1 /\ 1 \in 1 .. i - i + 1 /\ i + 1 - 1 = i
      BY <1>2, <3>1
    <3>4. one[1] = text[i + 1 - 1]
      BY <3>1, <3>3
    <3>5. \A j \in 1 .. Len(one) : one[j] = two[j]
      <4>1. \A j \in 1 .. 1 : j = 1
        OBVIOUS
      <4> QED
        BY <2>1, <3>2, <3>3, <3>4, <4>1
    <3>6. one = two
      BY <3>1, <3>2, <3>3, <3>5, SeqEqual
    <3> QED
      BY <3>6 DEF one, two
  <2> QED
    BY <2>3, <2>4
<1> QED
  BY <1>4, <1>5, <1>6, <1>7

(* A text in which a line was put in or a blank line taken out. *)
LEMMA EditTypes ==
    ASSUME NEW text \in Seq(Tokens), NEW i \in LineStarts(text)
    PROVE  /\ Inserted(text, i, <<"user", "break">>) \in Seq(Tokens)
           /\ Inserted(text, i, <<"break">>) \in Seq(Tokens)
           /\ Without(text, i, i) \in Seq(Tokens)
<1>1. /\ SubSeq(text, 1, i - 1) \in Seq(Tokens)
      /\ SubSeq(text, i, Len(text)) \in Seq(Tokens)
      /\ SubSeq(text, i + 1, Len(text)) \in Seq(Tokens)
  BY LineStart
<1>2. ASSUME NEW s \in Seq(Tokens), NEW t \in Seq(Tokens) PROVE s \o t \in Seq(Tokens)
  BY ConcatProperties
<1>3. "user" \in Tokens /\ "break" \in Tokens
  BY DEF Tokens
<1>4. <<"break">> \in Seq(Tokens) /\ <<"user", "break">> \in Seq(Tokens)
  <2>1. ASSUME NEW a \in Tokens, NEW b \in Tokens
        PROVE  <<a>> \in Seq(Tokens) /\ <<a, b>> \in Seq(Tokens)
    OBVIOUS
  <2> QED
    BY <1>3, <2>1, Zenon
<1> QED
  BY <1>1, <1>2, <1>4, Zenon DEF Inserted, Without

-----------------------------------------------------------------------------
(* Type correctness *)

(* The user has at most one line in the profile for each edit, and one     *)
(* more that was there before; a command that is under way has edits to do.*)
LinesAreCounted == mine.lines <= edits + 1
CommandHasEdits == command.at # "prompt" => command.todo # <<>>

(* The settings a command may make. *)
LEMMA ChangedType ==
    ASSUME NEW edit \in Edits \ OfProfile, NEW s \in Settings
    PROVE  Changed(edit, s) \in Settings
<1>1. /\ s.wellFormed \in BOOLEAN
      /\ s.groups \in SUBSET ((SUBSET HookCommands) \ {{}})
      /\ s.env \in [Keys -> Values]
  BY DEF Settings
<1>2. /\ AddCommandHook(s.groups) \in SUBSET ((SUBSET HookCommands) \ {{}})
      /\ RemoveCommandHook(s.groups) \in SUBSET ((SUBSET HookCommands) \ {{}})
  <2>1. {"biewer"} \in (SUBSET HookCommands) \ {{}}
    BY DEF HookCommands, Ours
  <2>2. \A g \in s.groups : g \ Ours \in SUBSET HookCommands
    BY <1>1
  <2>3. AddCommandHook(s.groups) \subseteq s.groups \cup {{"biewer"}}
    BY DEF AddCommandHook
  <2>4. \A h \in RemoveCommandHook(s.groups) :
           h # {} /\ \E g \in s.groups : h = g \ Ours
    BY DEF RemoveCommandHook
  <2> QED
    BY <1>1, <2>1, <2>2, <2>3, <2>4
<1>3. [k \in Keys |-> "biewer"] \in [Keys -> Values]
  BY DEF Values
<1>4. [k \in Keys |-> IF s.env[k] = "biewer" THEN "unset" ELSE s.env[k]]
         \in [Keys -> Values]
  BY <1>1 DEF Values
<1>5. edit \in {"add hooks", "drop hooks", "add env", "drop env"}
  BY DEF Edits, OfProfile
<1> QED
  BY <1>1, <1>2, <1>3, <1>4, <1>5 DEF Changed, Settings

(* A command at the prompt, and one with edits left. *)
LEMMA ThenType ==
    ASSUME NEW todo \in Seq(Edits)
    PROVE  /\ AtPrompt \in Command /\ Then(todo) \in Command
           /\ Then(todo).at \in {"prompt", "load"}
           /\ Then(todo).at # "prompt" => Then(todo).todo # <<>>
<1>1. Blank \in Settings
  BY DEF Blank, Settings, Values
<1>2. AtPrompt \in Command
  BY <1>1 DEF AtPrompt, Command
<1> QED
  BY <1>2 DEF Then, AtPrompt, Command

(* What a command does after an edit that succeeded or failed. *)
LEMMA EditEnds ==
    ASSUME command \in Command, command.todo # <<>>, Succeed \/ Fail
    PROVE  /\ command' \in Command /\ CommandHasEdits'
           /\ command'.at \in {"prompt", "load"}
<1>1. command.todo \in Seq(Edits)
  BY DEF Command
<1>2. Tail(command.todo) \in Seq(Edits)
  BY <1>1, HeadTailProperties
<1>3. <<"add env">> \in Seq(Edits) /\ <<>> \in Seq(Edits)
  BY DEF Edits
<1>4. \E todo \in Seq(Edits) : command' = Then(todo)
  BY <1>2, <1>3 DEF Succeed, Fail
<1> QED
  BY <1>4, ThenType DEF CommandHasEdits

(* The settings a run begins with. *)
LEMMA InitSettings ==
    ASSUME Init
    PROVE  settings \in Settings /\ \A k \in Keys : settings.env[k] = "unset"
<1> DEFINE Groups == (SUBSET HookCommands) \ {{}}
<1>1. \E groups \in SUBSET Groups : settings = [Blank EXCEPT !.groups = groups]
  <2>1. {"biewer of old"} \in Groups /\ {"user", "biewer of old"} \in Groups
    BY DEF HookCommands, Ours
  <2> HIDE DEF Groups
  <2>2. /\ {} \in SUBSET Groups
        /\ {{"biewer of old"}} \in SUBSET Groups
        /\ {{"user", "biewer of old"}} \in SUBSET Groups
    BY <2>1
  <2> QED
    BY <2>2, Zenon DEF Init
<1> HIDE DEF Groups
<1>2. PICK groups \in SUBSET Groups : settings = [Blank EXCEPT !.groups = groups]
  BY <1>1
<1>3. settings = [wellFormed |-> TRUE, groups |-> groups,
                  env |-> [k \in Keys |-> "unset"]]
  BY <1>2 DEF Blank
<1>4. [k \in Keys |-> "unset"] \in [Keys -> Values]
  BY DEF Values
<1> QED
  BY <1>3, <1>4 DEF Settings, Groups

(* Initially every variable has its type. *)
LEMMA InitSetupType ==
    Init => TypeOK /\ LinesAreCounted /\ CommandHasEdits
<1> SUFFICES ASSUME Init PROVE TypeOK /\ LinesAreCounted /\ CommandHasEdits
  OBVIOUS
<1>3. settings \in Settings /\ \A k \in Keys : settings.env[k] = "unset"
  BY InitSettings
<1>4. profile \in Seq(Tokens)
  <2>1. "user" \in Tokens /\ "break" \in Tokens
    BY DEF Tokens
  <2>2. <<>> \in Seq(Tokens) /\ <<"user">> \in Seq(Tokens)
    BY <2>1
  <2>3. <<"user", "break">> \in Seq(Tokens)
    BY <2>1
  <2> QED
    BY <2>2, <2>3 DEF Init
<1>5. command \in Command /\ command.at = "prompt"
  BY ThenType, EmptySeq DEF Init, AtPrompt
<1>6. /\ mine \in [hook : BOOLEAN, env : [Keys -> Values], lines : 0 .. MaxEdits + 1]
      /\ mine.lines <= 1
  <2>1. mine = [hook |-> HasCommand(settings.groups, "user"),
                env |-> settings.env,
                lines |-> IF profile = <<>> THEN 0 ELSE 1]
    BY DEF Init
  <2>2. HasCommand(settings.groups, "user") \in BOOLEAN
    BY DEF HasCommand
  <2>3. settings.env \in [Keys -> Values]
    BY <1>3 DEF Settings
  <2>4. MaxEdits \in Nat
    BY SetupAssumption
  <2>5. (IF profile = <<>> THEN 0 ELSE 1) \in 0 .. MaxEdits + 1
    BY <2>4
  <2> QED
    BY <2>1, <2>2, <2>3, <2>5
<1>7. 0 \in 0 .. MaxCommands /\ 0 \in 0 .. MaxEdits /\ 0 \in 0 .. MaxInterrupts
  <2>1. MaxCommands \in Nat /\ MaxEdits \in Nat /\ MaxInterrupts \in Nat
    BY SetupAssumption
  <2> QED
    BY <2>1
<1>8. TypeOK
  BY <1>3, <1>4, <1>5, <1>6, <1>7 DEF Init, TypeOK
<1>9. LinesAreCounted /\ CommandHasEdits
  <2>1. edits = 0
    BY Zenon DEF Init
  <2> QED
    BY <1>5, <1>6, <2>1 DEF LinesAreCounted, CommandHasEdits
<1> QED
  BY <1>8, <1>9

(* Every step keeps every variable in its type. *)
LEMMA NextSetupType ==
    TypeOK /\ LinesAreCounted /\ CommandHasEdits /\ [Next]_vars
       => (TypeOK /\ LinesAreCounted /\ CommandHasEdits)'
<1> SUFFICES ASSUME TypeOK, LinesAreCounted, CommandHasEdits, [Next]_vars
             PROVE  (TypeOK /\ LinesAreCounted /\ CommandHasEdits)'
  OBVIOUS
<1> USE DEF TypeOK
<1>1. MaxCommands \in Nat /\ MaxEdits \in Nat /\ MaxInterrupts \in Nat
  BY SetupAssumption
<1>2. /\ mine.hook \in BOOLEAN /\ mine.env \in [Keys -> Values]
      /\ mine.lines \in 0 .. MaxEdits + 1
      /\ settings.wellFormed \in BOOLEAN
      /\ settings.groups \in SUBSET ((SUBSET HookCommands) \ {{}})
      /\ settings.env \in [Keys -> Values]
      /\ command.todo \in Seq(Edits) /\ command.root \in Settings
      /\ command.text \in Seq(Tokens)
      /\ command.at \in {"prompt", "load", "save", "truncate", "write"}
  BY DEF Settings, Command
<1>3. CASE EditSettings
  <2>1. /\ edits < MaxEdits /\ edits' = edits + 1
        /\ overtaken' = (overtaken \/ Between({"save"}))
        /\ UNCHANGED <<profile, command, torn, crowded, commands, interrupts>>
    BY <1>3 DEF EditSettings
  <2>2. CASE settings' = [settings EXCEPT !.wellFormed = ~ @] /\ UNCHANGED mine
    <3>1. (~ settings.wellFormed) \in BOOLEAN
      OBVIOUS
    <3>2. settings' \in Settings
      BY <1>2, <2>2, <3>1 DEF Settings
    <3> QED
      BY <1>1, <1>2, <2>1, <2>2, <3>2
         DEF LinesAreCounted, CommandHasEdits, Between
  <2>3. CASE /\ \E g \in settings.groups \cup {{}} :
                   settings' = [settings EXCEPT !.groups =
                                  (@ \ {g}) \cup {g \cup {"user"}}]
             /\ mine' = [mine EXCEPT !.hook = TRUE]
    <3>1. PICK g \in settings.groups \cup {{}} :
             settings' = [settings EXCEPT !.groups =
                            (@ \ {g}) \cup {g \cup {"user"}}]
      BY <2>3
    <3>2. g \cup {"user"} \in (SUBSET HookCommands) \ {{}}
      BY <1>2, <3>1 DEF HookCommands
    <3>3. settings' \in Settings
      BY <1>2, <3>1, <3>2 DEF Settings
    <3>4. /\ mine' \in [hook : BOOLEAN, env : [Keys -> Values],
                        lines : 0 .. MaxEdits + 1]
          /\ mine'.lines = mine.lines
      BY <1>2, <2>3
    <3> QED
      BY <1>1, <1>2, <2>1, <3>3, <3>4
         DEF LinesAreCounted, CommandHasEdits, Between
  <2>4. CASE \E k \in Keys, v \in Values :
                /\ settings' = [settings EXCEPT !.env[k] = v]
                /\ mine' = [mine EXCEPT !.env[k] = v]
    <3>1. PICK k \in Keys, v \in Values :
             /\ settings' = [settings EXCEPT !.env[k] = v]
             /\ mine' = [mine EXCEPT !.env[k] = v]
      BY <2>4
    <3>2. settings' \in Settings
      BY <1>2, <3>1 DEF Settings
    <3>3. mine' \in [hook : BOOLEAN, env : [Keys -> Values],
                     lines : 0 .. MaxEdits + 1]
      BY <1>2, <3>1
    <3>4. mine'.lines = mine.lines
      BY <3>1
    <3> QED
      BY <1>1, <1>2, <2>1, <3>2, <3>3, <3>4
         DEF LinesAreCounted, CommandHasEdits, Between
  <2> QED
    BY <1>3, <2>2, <2>3, <2>4 DEF EditSettings
<1>4. CASE EditProfile
  <2>1. /\ edits < MaxEdits /\ edits' = edits + 1
        /\ overtaken' = (overtaken \/ Between({"truncate", "write"}))
        /\ UNCHANGED <<settings, command, torn, crowded, commands, interrupts>>
    BY <1>4 DEF EditProfile
  <2>2. WholeLines(profile) \in Seq(Tokens)
    BY TextTypes
  <2>3. PICK i \in LineStarts(WholeLines(profile)) :
           \/ /\ profile' = Inserted(WholeLines(profile), i, <<"user", "break">>)
              /\ mine' = [mine EXCEPT !.lines = @ + 1]
           \/ /\ profile' = Inserted(WholeLines(profile), i, <<"break">>)
              /\ UNCHANGED mine
           \/ /\ profile' = Without(WholeLines(profile), i, i)
              /\ UNCHANGED mine
    BY <1>4, Zenon DEF EditProfile
  <2>4. profile' \in Seq(Tokens)
    BY <2>2, <2>3, EditTypes, Zenon
  <2>5. mine.lines + 1 \in 0 .. MaxEdits + 1 /\ mine.lines + 1 <= edits' + 1
    BY <1>1, <1>2, <2>1 DEF LinesAreCounted
  <2>6. /\ mine' \in [hook : BOOLEAN, env : [Keys -> Values],
                      lines : 0 .. MaxEdits + 1]
        /\ mine'.lines <= edits' + 1
    <3>1. CASE mine' = [mine EXCEPT !.lines = @ + 1]
      BY <1>2, <2>5, <3>1
    <3>2. CASE UNCHANGED mine
      <4>1. mine.lines <= edits' + 1
        BY <1>1, <1>2, <2>1 DEF LinesAreCounted
      <4> QED
        BY <3>2, <4>1
    <3> QED
      BY <2>3, <3>1, <3>2, Zenon
  <2>7. edits' \in 0 .. MaxEdits /\ overtaken' \in BOOLEAN
    BY <1>1, <2>1 DEF Between
  <2> QED
    BY <2>1, <2>4, <2>6, <2>7 DEF LinesAreCounted, CommandHasEdits
<1>5. ASSUME NEW todo \in Commands, Run(todo)
      PROVE  (TypeOK /\ LinesAreCounted /\ CommandHasEdits)'
  <2>1. todo \in Seq(Edits)
    <3>1. /\ "add hooks" \in Edits /\ "add wrapper" \in Edits
          /\ "add env" \in Edits /\ "drop hooks" \in Edits
          /\ "drop wrapper" \in Edits /\ "drop env" \in Edits
      BY DEF Edits
    <3>2. ASSUME NEW a \in Edits, NEW b \in Edits, NEW c \in Edits
          PROVE  /\ <<a>> \in Seq(Edits) /\ <<a, b>> \in Seq(Edits)
                 /\ <<a, b, c>> \in Seq(Edits)
      OBVIOUS
    <3>3. /\ <<"add hooks", "add wrapper", "add env">> \in Seq(Edits)
          /\ <<"add hooks", "add wrapper">> \in Seq(Edits)
          /\ <<"add env">> \in Seq(Edits)
          /\ <<"drop hooks", "drop wrapper">> \in Seq(Edits)
          /\ <<"drop env">> \in Seq(Edits)
      BY <3>1, <3>2, Zenon
    <3> QED
      BY <3>3, Zenon DEF Commands
  <2>2. command' \in Command /\ CommandHasEdits'
    BY <1>5, <2>1, ThenType DEF Run, CommandHasEdits
  <2> QED
    BY <1>1, <1>5, <2>2 DEF Run, LinesAreCounted, user
<1>6. CASE LoadSettings
  <2>1. command.todo # <<>> /\ Edit \in Edits \ OfProfile
    <3>1. command.todo # <<>> /\ Edit \notin OfProfile
      BY <1>6 DEF LoadSettings, CommandHasEdits
    <3>2. Edit \in Edits
      BY <1>2, <3>1, HeadTailProperties DEF Edit
    <3> QED
      BY <3>1, <3>2
  <2>2. CASE Fail
    BY <1>6, <2>1, <2>2, EditEnds DEF LoadSettings, LinesAreCounted, user
  <2>3. CASE command' = [command EXCEPT !.at = "save",
                                         !.root = Changed(Edit, settings)]
    <3>1. Changed(Edit, settings) \in Settings
      BY <2>1, ChangedType
    <3>2. command' \in Command /\ command'.todo # <<>>
      BY <1>2, <2>1, <2>3, <3>1 DEF Command
    <3> QED
      BY <1>6, <3>2 DEF LoadSettings, LinesAreCounted, CommandHasEdits, user
  <2> QED
    BY <1>6, <2>2, <2>3 DEF LoadSettings
<1>7. CASE SaveSettings
  BY <1>2, <1>7, EditEnds
     DEF SaveSettings, LinesAreCounted, CommandHasEdits, user
<1>8. CASE LoadProfile
  <2>1. command.todo # <<>>
    BY <1>8 DEF LoadProfile, CommandHasEdits
  <2> DEFINE text == IF Edit = "add wrapper" THEN WithWrapper(profile)
                     ELSE StripMarkedBlock(profile)
  <2>2. text \in Seq(Tokens)
    BY TextTypes
  <2> HIDE DEF text
  <2>3. CASE Succeed
    BY <1>8, <2>1, <2>3, EditEnds DEF LoadProfile, LinesAreCounted, user
  <2>4. CASE command' = [command EXCEPT !.at = "truncate", !.text = text]
    <3>1. command' \in Command /\ command'.todo # <<>>
      BY <1>2, <2>1, <2>2, <2>4 DEF Command
    <3> QED
      BY <1>8, <3>1 DEF LoadProfile, LinesAreCounted, CommandHasEdits, user
  <2> QED
    BY <1>8, <2>3, <2>4 DEF LoadProfile, text
<1>9. CASE TruncateProfile
  <2>1. command' \in Command /\ command'.todo # <<>>
    BY <1>2, <1>9 DEF TruncateProfile, Command, CommandHasEdits
  <2> QED
    BY <1>9, <2>1, EmptySeq
       DEF TruncateProfile, LinesAreCounted, CommandHasEdits, user
<1>10. CASE WriteProfile
  BY <1>2, <1>10, EditEnds
     DEF WriteProfile, LinesAreCounted, CommandHasEdits, user
<1>11. CASE Cut
  <2>1. command' \in Command /\ CommandHasEdits'
    <3>1. CASE command' = AtPrompt
      BY <3>1, ThenType, EmptySeq DEF CommandHasEdits, AtPrompt
    <3>2. CASE Fail
      <4>1. command.todo # <<>>
        BY <1>11 DEF Cut, CommandHasEdits
      <4> QED
        BY <3>2, <4>1, EditEnds
    <3> QED
      BY <1>11, <3>1, <3>2 DEF Cut
  <2>2. interrupts' \in 0 .. MaxInterrupts
    BY <1>1, <1>11 DEF Cut
  <2>3. profile' \in Seq(Tokens) /\ torn' \in BOOLEAN
    <3>1. ASSUME NEW n \in 0 .. Len(command.text)
          PROVE  SubSeq(command.text, 1, n) \in Seq(Tokens)
      <4>1. Len(command.text) \in Nat
        BY <1>2
      <4>2. \A i \in 1 .. n : command.text[i] \in Tokens
        BY <1>2, <4>1
      <4> QED
        BY <4>1, <4>2, SubSeqProperties
    <3> QED
      BY <1>11, <3>1 DEF Cut
  <2> QED
    BY <1>11, <2>1, <2>2, <2>3 DEF Cut, LinesAreCounted, user
<1>12. CASE UNCHANGED vars
  BY <1>12 DEF vars, user, LinesAreCounted, CommandHasEdits
<1> QED
  BY <1>3, <1>4, <1>5, <1>6, <1>7, <1>8, <1>9, <1>10, <1>11, <1>12 DEF Next

(* Type correctness: whatever commands run, are cut, or meet edits of the  *)
(* user and of Claude Code, every variable keeps a value of its kind.      *)
THEOREM TypeCorrect == Spec => []TypeOK
<1>1. Spec => [](TypeOK /\ LinesAreCounted /\ CommandHasEdits)
  BY InitSetupType, NextSetupType, PTL DEF Spec
<1> QED
  BY <1>1, PTL

-----------------------------------------------------------------------------
(* The settings of the user *)

(* Settings that hold all the user wants. *)
HoldMine(s) ==
    /\ mine.hook => HasCommand(s.groups, "user")
    /\ \A k \in Keys : mine.env[k] = "user" => s.env[k] = "user"

(* What is in the file, and what a command is about to put there. *)
SettingsInv ==
    ~ overtaken =>
        HoldMine(settings) /\ (command.at = "save" => HoldMine(command.root))

(* No change a command makes loses what the user wants. *)
LEMMA ChangedHoldsMine ==
    ASSUME NEW edit \in Edits \ OfProfile, NEW s \in Settings, HoldMine(s),
           edit = "add env" => Conflicts(s.env) = {}
    PROVE  HoldMine(Changed(edit, s))
<1>1. edit \in {"add hooks", "drop hooks", "add env", "drop env"}
  BY DEF Edits, OfProfile
<1>2. /\ HasCommand(s.groups, "user") => HasCommand(AddCommandHook(s.groups), "user")
      /\ HasCommand(s.groups, "user") => HasCommand(RemoveCommandHook(s.groups), "user")
  <2>1. HasCommand(s.groups, "user") => HasCommand(AddCommandHook(s.groups), "user")
    BY DEF HasCommand, AddCommandHook
  <2>2. ASSUME NEW g \in s.groups, "user" \in g
        PROVE  g \ Ours \in RemoveCommandHook(s.groups) /\ "user" \in g \ Ours
    BY <2>2 DEF RemoveCommandHook, Ours
  <2> QED
    BY <2>1, <2>2 DEF HasCommand
<1>3. s = [wellFormed |-> s.wellFormed, groups |-> s.groups, env |-> s.env]
  BY DEF Settings
<1>4. CASE edit = "add hooks"
  <2>1. /\ Changed(edit, s).groups = AddCommandHook(s.groups)
        /\ Changed(edit, s).env = s.env
    BY <1>3, <1>4 DEF Changed
  <2> QED
    BY <1>2, <2>1 DEF HoldMine
<1>5. CASE edit = "drop hooks"
  <2>1. /\ Changed(edit, s).groups = RemoveCommandHook(s.groups)
        /\ Changed(edit, s).env = s.env
    BY <1>3, <1>5 DEF Changed
  <2> QED
    BY <1>2, <2>1 DEF HoldMine
<1>6. CASE edit = "add env"
  <2>1. /\ Changed(edit, s).groups = s.groups
        /\ \A k \in Keys : s.env[k] # "user"
    BY <1>3, <1>6 DEF Changed, Conflicts
  <2> QED
    BY <2>1 DEF HoldMine
<1>7. CASE edit = "drop env"
  <2>1. /\ Changed(edit, s).groups = s.groups
        /\ Changed(edit, s).env =
              [k \in Keys |-> IF s.env[k] = "biewer" THEN "unset" ELSE s.env[k]]
    BY <1>3, <1>7 DEF Changed
  <2> QED
    BY <2>1 DEF HoldMine
<1> QED
  BY <1>1, <1>4, <1>5, <1>6, <1>7

(* Every step keeps the user's settings. *)
LEMMA NextSettingsInv ==
    ASSUME TypeOK, CommandHasEdits, SettingsInv, [Next]_vars
    PROVE  SettingsInv'
<1> SUFFICES ASSUME ~ overtaken'
             PROVE  HoldMine(settings)' /\ (command'.at = "save"
                                             => HoldMine(command.root)')
  BY DEF SettingsInv
<1>1. /\ settings \in Settings
      /\ settings.groups \in SUBSET ((SUBSET HookCommands) \ {{}})
      /\ settings.env \in [Keys -> Values]
      /\ mine.env \in [Keys -> Values]
      /\ command.todo \in Seq(Edits)
  BY DEF TypeOK, Settings, Command
<1>2. ASSUME UNCHANGED <<overtaken, mine, settings>>,
             command'.at = "save" => /\ command.at = "save"
                                     /\ command'.root = command.root
      PROVE  HoldMine(settings)' /\ (command'.at = "save"
                                      => HoldMine(command.root)')
  BY <1>2 DEF SettingsInv, HoldMine
<1>3. ASSUME Succeed \/ Fail, command.at # "prompt" PROVE command'.at # "save"
  <2>1. command \in Command /\ command.todo # <<>>
    BY <1>3 DEF TypeOK, CommandHasEdits
  <2> QED
    BY <1>3, <2>1, EditEnds
<1>4. CASE EditSettings
  <2>1. /\ ~ overtaken /\ command.at # "save" /\ command' = command
    BY <1>4 DEF EditSettings, Between
  <2>2. HoldMine(settings)
    BY <2>1 DEF SettingsInv
  <2>3. CASE settings' = [settings EXCEPT !.wellFormed = ~ @] /\ UNCHANGED mine
    <3>1. settings'.groups = settings.groups /\ settings'.env = settings.env
      BY <1>1, <2>3 DEF Settings
    <3> QED
      BY <2>1, <2>2, <2>3, <3>1 DEF HoldMine
  <2>4. CASE /\ \E g \in settings.groups \cup {{}} :
                   settings' = [settings EXCEPT !.groups =
                                  (@ \ {g}) \cup {g \cup {"user"}}]
             /\ mine' = [mine EXCEPT !.hook = TRUE]
    <3>1. PICK g \in settings.groups \cup {{}} :
             settings' = [settings EXCEPT !.groups =
                            (@ \ {g}) \cup {g \cup {"user"}}]
      BY <2>4
    <3>2. /\ settings'.groups = (settings.groups \ {g}) \cup {g \cup {"user"}}
          /\ settings'.env = settings.env
          /\ mine'.env = mine.env
      BY <1>1, <2>4, <3>1 DEF TypeOK, Settings
    <3>3. HasCommand(settings'.groups, "user")
      BY <3>2 DEF HasCommand
    <3> QED
      BY <2>1, <2>2, <3>2, <3>3 DEF HoldMine
  <2>5. CASE \E k \in Keys, v \in Values :
                /\ settings' = [settings EXCEPT !.env[k] = v]
                /\ mine' = [mine EXCEPT !.env[k] = v]
    <3>1. PICK k \in Keys, v \in Values :
             /\ settings' = [settings EXCEPT !.env[k] = v]
             /\ mine' = [mine EXCEPT !.env[k] = v]
      BY <2>5
    <3>2. /\ settings'.groups = settings.groups
          /\ settings'.env = [settings.env EXCEPT ![k] = v]
          /\ mine'.hook = mine.hook
          /\ mine'.env = [mine.env EXCEPT ![k] = v]
      BY <1>1, <3>1 DEF TypeOK, Settings
    <3> QED
      BY <1>1, <2>1, <2>2, <3>2 DEF HoldMine
  <2> QED
    BY <1>4, <2>3, <2>4, <2>5 DEF EditSettings
<1>5. CASE EditProfile
  <2>1. /\ ~ overtaken /\ command' = command /\ settings' = settings
        /\ mine'.hook = mine.hook /\ mine'.env = mine.env
    <3>1. mine' = mine \/ mine' = [mine EXCEPT !.lines = @ + 1]
      BY <1>5, Zenon DEF EditProfile
    <3> QED
      BY <1>5, <3>1 DEF EditProfile, TypeOK
  <2> QED
    BY <2>1 DEF SettingsInv, HoldMine
<1>6. ASSUME NEW todo \in Commands, Run(todo)
      PROVE  HoldMine(settings)' /\ (command'.at = "save"
                                      => HoldMine(command.root)')
  <2>1. command'.at # "save"
    BY <1>6 DEF Run, Then, AtPrompt
  <2> QED
    BY <1>2, <1>6, <2>1 DEF Run, user
<1>7. CASE LoadSettings
  <2>1. ~ overtaken /\ UNCHANGED <<mine, settings>>
    BY <1>7 DEF LoadSettings, user
  <2>2. command.at = "load" /\ HoldMine(settings)
    BY <1>7, <2>1 DEF LoadSettings, SettingsInv
  <2>3. CASE Fail
    BY <1>2, <1>3, <1>7, <2>2, <2>3 DEF LoadSettings, user
  <2>4. CASE /\ ~ (Edit = "add env" /\ Conflicts(settings.env) # {})
             /\ command' = [command EXCEPT !.at = "save",
                                            !.root = Changed(Edit, settings)]
    <3>1. Edit \in Edits \ OfProfile
      BY <1>1, <1>7, <2>2, HeadTailProperties
         DEF Edit, LoadSettings, CommandHasEdits
    <3>2. HoldMine(Changed(Edit, settings))
      BY <1>1, <2>2, <2>4, <3>1, ChangedHoldsMine
    <3>3. command'.root = Changed(Edit, settings)
      BY <2>4 DEF TypeOK, Command
    <3> QED
      BY <2>1, <2>2, <3>2, <3>3 DEF HoldMine
  <2> QED
    BY <1>7, <2>3, <2>4 DEF LoadSettings
<1>8. CASE SaveSettings
  <2>1. /\ ~ overtaken /\ mine' = mine /\ command.at = "save"
        /\ settings' = command.root /\ Succeed
    BY <1>8 DEF SaveSettings, user
  <2>2. command'.at # "save"
    BY <1>3, <2>1
  <2> QED
    BY <2>1, <2>2 DEF SettingsInv, HoldMine
<1>9. CASE LoadProfile
  <2>1. command'.at # "save"
    BY <1>3, <1>9 DEF LoadProfile, TypeOK, Command
  <2> QED
    BY <1>2, <1>9, <2>1 DEF LoadProfile, user
<1>10. CASE TruncateProfile
  <2>1. command'.at # "save"
    BY <1>10 DEF TruncateProfile, TypeOK, Command
  <2> QED
    BY <1>2, <1>10, <2>1 DEF TruncateProfile, user
<1>11. CASE WriteProfile
  BY <1>2, <1>3, <1>11 DEF WriteProfile, user
<1>12. CASE Cut
  <2>1. command'.at # "save"
    BY <1>3, <1>12 DEF Cut, AtPrompt
  <2> QED
    BY <1>2, <1>12, <2>1 DEF Cut, user
<1>13. CASE UNCHANGED vars
  BY <1>2, <1>13 DEF vars, user
<1> QED
  BY <1>4, <1>5, <1>6, <1>7, <1>8, <1>9, <1>10, <1>11, <1>12, <1>13 DEF Next

(* What the user has in settings.json outlives every sequence of installs, *)
(* uninstalls, refused and cut commands; only an edit between a load and   *)
(* the rename after it can be lost.                                        *)
THEOREM SettingsAreKept == Spec => []UserSettingsSurvive
<1>1. Init => SettingsInv
  <2> SUFFICES ASSUME Init PROVE SettingsInv
    OBVIOUS
  <2>1. /\ mine = [hook |-> HasCommand(settings.groups, "user"),
                   env |-> settings.env,
                   lines |-> IF profile = <<>> THEN 0 ELSE 1]
        /\ command = AtPrompt
    BY Zenon DEF Init
  <2> QED
    BY <2>1 DEF SettingsInv, HoldMine, AtPrompt
<1>2. Spec => [](TypeOK /\ LinesAreCounted /\ CommandHasEdits)
  BY InitSetupType, NextSetupType, PTL DEF Spec
<1>3. TypeOK /\ CommandHasEdits /\ SettingsInv /\ [Next]_vars => SettingsInv'
  BY NextSettingsInv
<1>4. SettingsInv => UserSettingsSurvive
  BY DEF SettingsInv, HoldMine, UserSettingsSurvive
<1> QED
  BY <1>1, <1>2, <1>3, <1>4, PTL DEF Spec

-----------------------------------------------------------------------------
(* The profile: how a whole one is made, and what edits make of it *)

Places(text, token) == {i \in DOMAIN text : text[i] = token}
LineCount(text) == Cardinality(Places(text, "user"))

(* No line of the user's runs into what follows it. *)
Apart(text) ==
    \A i \in Places(text, "user") : i < Len(text) => At(text, i + 1, "break")

(* Texts without a wrapper, and a wrapper between two of them. *)
Plain == {text \in Seq(Tokens) : Places(text, "begin") = {}}
Around(p, q) == p \o (Wrapper \o q)

Wrapped(text) == \E p, q \in Plain : EndsLine(p) /\ text = Around(p, q)

Whole(text, n) == LineCount(text) = n /\ (text \in Plain \/ Wrapped(text))

(* The profile between its writes, and what a command is about to write.   *)
Kept(text) == Whole(text, mine.lines) /\ (~ crowded => Apart(text))

ProfileInv ==
    ~ overtaken /\ ~ torn =>
        /\ command.at # "write" => Kept(profile)
        /\ command.at \in {"truncate", "write"} => Kept(command.text)

(* The places of a token in two texts, one after the other. *)
LEMMA JoinPlaces ==
    ASSUME NEW s \in Seq(Tokens), NEW t \in Seq(Tokens), NEW token
    PROVE  Places(s \o t, token) =
              Places(s, token) \cup {i + Len(s) : i \in Places(t, token)}
<1>1. /\ Len(s) \in Nat /\ Len(t) \in Nat
      /\ DOMAIN s = 1 .. Len(s) /\ DOMAIN t = 1 .. Len(t)
  OBVIOUS
<1>2. /\ s \o t \in Seq(Tokens)
      /\ Len(s \o t) = Len(s) + Len(t)
      /\ \A i \in 1 .. Len(s) + Len(t) :
            (s \o t)[i] = IF i <= Len(s) THEN s[i] ELSE t[i - Len(s)]
  BY ConcatProperties
<1> DEFINE r == s \o t
<1>3. DOMAIN r = 1 .. Len(s) + Len(t)
  BY <1>2
<1> HIDE DEF r
<1>4. ASSUME NEW i \in Places(r, token)
      PROVE  i \in Places(s, token) \cup {j + Len(s) : j \in Places(t, token)}
  <2>1. i \in 1 .. Len(s) + Len(t) /\ r[i] = token
    BY <1>3, <1>4 DEF Places
  <2>2. CASE i <= Len(s)
    BY <1>1, <1>2, <2>1, <2>2 DEF Places, r
  <2>3. CASE ~ (i <= Len(s))
    <3>1. i - Len(s) \in 1 .. Len(t) /\ i = (i - Len(s)) + Len(s)
      BY <1>1, <2>1, <2>3
    <3>2. t[i - Len(s)] = token
      BY <1>2, <2>1, <2>3 DEF r
    <3>3. i - Len(s) \in Places(t, token)
      BY <1>1, <3>1, <3>2 DEF Places
    <3> QED
      BY <3>1, <3>3
  <2> QED
    BY <2>2, <2>3
<1>5. ASSUME NEW i \in Places(s, token) PROVE i \in Places(r, token)
  <2>1. i \in 1 .. Len(s) /\ s[i] = token
    BY <1>1, <1>5 DEF Places
  <2>2. i \in 1 .. Len(s) + Len(t) /\ i <= Len(s)
    BY <1>1, <2>1
  <2> QED
    BY <1>2, <1>3, <2>1, <2>2 DEF Places, r
<1>6. ASSUME NEW i \in Places(t, token) PROVE i + Len(s) \in Places(r, token)
  <2>1. i \in 1 .. Len(t) /\ t[i] = token
    BY <1>1, <1>6 DEF Places
  <2>2. /\ i + Len(s) \in 1 .. Len(s) + Len(t) /\ ~ (i + Len(s) <= Len(s))
        /\ (i + Len(s)) - Len(s) = i
    BY <1>1, <2>1
  <2>3. r[i + Len(s)] = t[(i + Len(s)) - Len(s)]
    BY <1>2, <2>2 DEF r
  <2> QED
    BY <1>3, <2>1, <2>2, <2>3 DEF Places
<1> QED
  BY <1>4, <1>5, <1>6 DEF r

(* Shifting a set of places keeps how many they are. *)
LEMMA ShiftCounts ==
    ASSUME NEW P \in SUBSET Nat, NEW n \in Nat, IsFiniteSet(P)
    PROVE  /\ IsFiniteSet({i + n : i \in P})
           /\ Cardinality({i + n : i \in P}) = Cardinality(P)
<1> DEFINE Q == {i + n : i \in P}
           f == [i \in P |-> i + n]
<1>1. f \in [P -> Q] /\ \A i \in P : f[i] = i + n
  OBVIOUS
<1>2. \A a, b \in P : f[a] = f[b] => a = b
  BY <1>1
<1>3. \A q \in Q : \E i \in P : f[i] = q
  BY <1>1
<1> HIDE DEF f, Q
<1>4. f \in Injection(P, Q) /\ f \in Surjection(P, Q)
  BY <1>1, <1>2, <1>3 DEF Injection, Surjection, IsInjective
<1>5. ExistsBijection(P, Q)
  BY <1>4 DEF ExistsBijection, Bijection
<1>6. IsFiniteSet(Q) /\ Cardinality(Q) = Cardinality(P)
  BY <1>5, FS_Bijection
<1> QED
  BY <1>6 DEF Q

(* Two texts, one after the other, have the lines of both. *)
LEMMA JoinCounts ==
    ASSUME NEW s \in Seq(Tokens), NEW t \in Seq(Tokens)
    PROVE  /\ LineCount(s) \in Nat /\ LineCount(t) \in Nat
           /\ LineCount(s \o t) = LineCount(s) + LineCount(t)
<1> DEFINE P == Places(s, "user")
           Q == Places(t, "user")
           R == {i + Len(s) : i \in Q}
<1>1. /\ Len(s) \in Nat /\ Len(t) \in Nat
      /\ DOMAIN s = 1 .. Len(s) /\ DOMAIN t = 1 .. Len(t)
  OBVIOUS
<1>2. /\ P \subseteq 1 .. Len(s) /\ Q \subseteq 1 .. Len(t)
  BY <1>1 DEF Places
<1>3. IsFiniteSet(P) /\ IsFiniteSet(Q)
  <2>1. IsFiniteSet(1 .. Len(s)) /\ IsFiniteSet(1 .. Len(t))
    BY <1>1, FS_Interval
  <2> QED
    BY <1>2, <2>1, FS_Subset
<1>4. Places(s \o t, "user") = P \cup R
  BY JoinPlaces
<1> HIDE DEF P, Q
<1>5. IsFiniteSet(R) /\ Cardinality(R) = Cardinality(Q)
  <2>1. Q \in SUBSET Nat
    BY <1>1, <1>2
  <2> QED
    BY <1>1, <1>3, <2>1, ShiftCounts
<1>6. P \cap R = {}
  BY <1>1, <1>2
<1> HIDE DEF R
<1>7. /\ Cardinality(P) \in Nat /\ Cardinality(Q) \in Nat /\ Cardinality(R) \in Nat
  BY <1>3, <1>5, FS_CardinalityType
<1>8. Cardinality(P \cup R) = Cardinality(P) + Cardinality(R)
  <2>1. Cardinality(P \cup R) =
           Cardinality(P) + Cardinality(R) - Cardinality(P \cap R)
    BY <1>3, <1>5, FS_Union
  <2>2. Cardinality(P \cap R) = 0
    BY <1>6, FS_EmptySet
  <2> QED
    BY <1>7, <2>1, <2>2
<1> QED
  BY <1>4, <1>5, <1>7, <1>8 DEF LineCount, P, Q

(* A text that ends its line keeps its lines apart from those of the next. *)
LEMMA JoinApart ==
    ASSUME NEW s \in Seq(Tokens), NEW t \in Seq(Tokens),
           Apart(s), Apart(t), EndsLine(s)
    PROVE  Apart(s \o t) /\ (EndsLine(t) => EndsLine(s \o t))
<1>1. /\ Len(s) \in Nat /\ Len(t) \in Nat
      /\ DOMAIN s = 1 .. Len(s) /\ DOMAIN t = 1 .. Len(t)
      /\ s = <<>> => Len(s) = 0
      /\ t = <<>> => Len(t) = 0
  OBVIOUS
<1>2. /\ s \o t \in Seq(Tokens)
      /\ Len(s \o t) = Len(s) + Len(t)
      /\ \A i \in 1 .. Len(s) + Len(t) :
            (s \o t)[i] = IF i <= Len(s) THEN s[i] ELSE t[i - Len(s)]
  BY ConcatProperties
<1> DEFINE r == s \o t
<1>3. DOMAIN r = 1 .. Len(s) + Len(t) /\ Len(r) = Len(s) + Len(t)
  BY <1>2
<1>4. Places(r, "user") =
         Places(s, "user") \cup {i + Len(s) : i \in Places(t, "user")}
  BY JoinPlaces
<1>5. ASSUME NEW i \in Places(s, "user"), i < Len(r) PROVE At(r, i + 1, "break")
  <2>1. i \in 1 .. Len(s) /\ s[i] = "user"
    BY <1>1, <1>5 DEF Places
  <2>2. s # <<>>
    BY <1>1, <2>1
  <2>3. s[Len(s)] = "break"
    BY <2>2 DEF EndsLine, At
  <2>4. i < Len(s)
    BY <1>1, <2>1, <2>3
  <2>5. i + 1 \in 1 .. Len(s) /\ s[i + 1] = "break"
    BY <1>1, <1>5, <2>4 DEF Apart, At
  <2>6. i + 1 \in 1 .. Len(s) + Len(t) /\ i + 1 <= Len(s)
    BY <1>1, <2>5
  <2> QED
    BY <1>2, <1>3, <2>5, <2>6 DEF At
<1>6. ASSUME NEW i \in Places(t, "user"), i + Len(s) < Len(r)
      PROVE  At(r, (i + Len(s)) + 1, "break")
  <2>1. i \in 1 .. Len(t) /\ i < Len(t)
    BY <1>1, <1>3, <1>6 DEF Places
  <2>2. i + 1 \in 1 .. Len(t) /\ t[i + 1] = "break"
    BY <1>1, <1>6, <2>1 DEF Apart, At
  <2>3. /\ (i + Len(s)) + 1 \in 1 .. Len(s) + Len(t)
        /\ ~ ((i + Len(s)) + 1 <= Len(s))
        /\ ((i + Len(s)) + 1) - Len(s) = i + 1
    BY <1>1, <2>1, <2>2
  <2>4. r[(i + Len(s)) + 1] = t[((i + Len(s)) + 1) - Len(s)]
    BY <1>2, <2>3
  <2> QED
    BY <1>3, <2>2, <2>3, <2>4 DEF At
<1>7. ASSUME EndsLine(t) PROVE EndsLine(r)
  <2>1. CASE t = <<>>
    <3>1. r = s
      BY <2>1, ConcatEmptySeq
    <3> QED
      BY <3>1
  <2>2. CASE t # <<>>
    <3>1. Len(t) \in 1 .. Len(t) /\ t[Len(t)] = "break"
      BY <1>1, <1>7, <2>2 DEF EndsLine, At
    <3>2. /\ Len(s) + Len(t) \in 1 .. Len(s) + Len(t)
          /\ ~ (Len(s) + Len(t) <= Len(s))
          /\ (Len(s) + Len(t)) - Len(s) = Len(t)
      BY <1>1, <3>1
    <3>3. r[Len(s) + Len(t)] = t[(Len(s) + Len(t)) - Len(s)]
      BY <1>2, <3>2
    <3> QED
      BY <1>3, <3>1, <3>2, <3>3 DEF EndsLine, At
  <2> QED
    BY <2>1, <2>2
<1> HIDE DEF r
<1>8. Apart(r)
  BY <1>4, <1>5, <1>6 DEF Apart
<1> QED
  BY <1>7, <1>8 DEF r

(* Texts that are apart from each other's lines are so each on its own. *)
LEMMA PartsApart ==
    ASSUME NEW s \in Seq(Tokens), NEW t \in Seq(Tokens), EndsLine(s)
    PROVE  /\ Apart(s \o t) <=> Apart(s) /\ Apart(t)
           /\ EndsLine(t) => EndsLine(s \o t)
           /\ EndsLine(s \o t) => EndsLine(t)
<1>1. /\ Len(s) \in Nat /\ Len(t) \in Nat
      /\ DOMAIN s = 1 .. Len(s) /\ DOMAIN t = 1 .. Len(t)
      /\ s = <<>> <=> Len(s) = 0
      /\ t = <<>> <=> Len(t) = 0
  OBVIOUS
<1> DEFINE r == s \o t
<1>2. /\ r \in Seq(Tokens) /\ Len(r) = Len(s) + Len(t)
      /\ DOMAIN r = 1 .. Len(s) + Len(t)
      /\ \A i \in 1 .. Len(s) + Len(t) :
            r[i] = IF i <= Len(s) THEN s[i] ELSE t[i - Len(s)]
  <2>1. /\ r \in Seq(Tokens) /\ Len(r) = Len(s) + Len(t)
        /\ \A i \in 1 .. Len(s) + Len(t) :
              r[i] = IF i <= Len(s) THEN s[i] ELSE t[i - Len(s)]
    BY ConcatProperties
  <2> HIDE DEF r
  <2> QED
    BY <2>1
<1>3. Apart(s) /\ Apart(t) => Apart(r)
  BY JoinApart
<1>4. Places(r, "user") =
         Places(s, "user") \cup {i + Len(s) : i \in Places(t, "user")}
  BY JoinPlaces
<1> HIDE DEF r
<1>5. ASSUME Apart(r), NEW i \in Places(s, "user"), i < Len(s)
      PROVE  At(s, i + 1, "break")
  <2>1. i \in 1 .. Len(s)
    BY <1>1, <1>5 DEF Places
  <2>2. i \in Places(r, "user") /\ i < Len(r)
    BY <1>1, <1>2, <1>4, <1>5, <2>1
  <2>3. r[i + 1] = "break"
    BY <1>5, <2>2 DEF Apart, At
  <2>4. i + 1 \in 1 .. Len(s) + Len(t) /\ i + 1 <= Len(s) /\ i + 1 \in 1 .. Len(s)
    BY <1>1, <1>5, <2>1
  <2> QED
    BY <1>1, <1>2, <2>3, <2>4 DEF At
<1>6. ASSUME Apart(r), NEW i \in Places(t, "user"), i < Len(t)
      PROVE  At(t, i + 1, "break")
  <2>1. i \in 1 .. Len(t)
    BY <1>1, <1>6 DEF Places
  <2>2. i + Len(s) \in Places(r, "user") /\ i + Len(s) < Len(r)
    BY <1>1, <1>2, <1>4, <1>6, <2>1
  <2>3. r[(i + Len(s)) + 1] = "break"
    BY <1>6, <2>2 DEF Apart, At
  <2>4. /\ (i + Len(s)) + 1 \in 1 .. Len(s) + Len(t)
        /\ ~ ((i + Len(s)) + 1 <= Len(s))
        /\ ((i + Len(s)) + 1) - Len(s) = i + 1
        /\ i + 1 \in 1 .. Len(t)
    BY <1>1, <1>6, <2>1
  <2>5. r[(i + Len(s)) + 1] = t[((i + Len(s)) + 1) - Len(s)]
    BY <1>2, <2>4
  <2> QED
    BY <1>1, <2>3, <2>4, <2>5 DEF At
<1>7. ASSUME EndsLine(r), t # <<>> PROVE EndsLine(t)
  <2>1. /\ Len(t) \in 1 .. Len(t) /\ Len(r) \in 1 .. Len(s) + Len(t)
        /\ ~ (Len(r) <= Len(s)) /\ Len(r) - Len(s) = Len(t) /\ Len(r) # 0
    BY <1>1, <1>2, <1>7
  <2>2. r[Len(r)] = t[Len(r) - Len(s)]
    BY <1>2, <2>1
  <2>3. r # <<>>
    BY <1>2, <2>1
  <2>4. r[Len(r)] = "break"
    BY <1>7, <2>3 DEF EndsLine, At
  <2> QED
    BY <1>1, <2>1, <2>2, <2>4 DEF EndsLine, At
<1>8. ASSUME EndsLine(t) PROVE EndsLine(r)
  <2>1. CASE t = <<>>
    <3>1. r = s
      BY <2>1, ConcatEmptySeq DEF r
    <3> QED
      BY <3>1
  <2>2. CASE t # <<>>
    <3>1. /\ Len(t) \in 1 .. Len(t) /\ Len(r) \in 1 .. Len(s) + Len(t)
          /\ ~ (Len(r) <= Len(s)) /\ Len(r) - Len(s) = Len(t)
      BY <1>1, <1>2, <2>2
    <3>2. r[Len(r)] = t[Len(r) - Len(s)]
      BY <1>2, <3>1
    <3>3. t[Len(t)] = "break"
      BY <1>8, <2>2 DEF EndsLine, At
    <3> QED
      BY <1>2, <3>1, <3>2, <3>3 DEF EndsLine, At
  <2> QED
    BY <2>1, <2>2
<1>9. Apart(r) => Apart(s) /\ Apart(t)
  BY <1>5, <1>6 DEF Apart
<1>10. EndsLine(r) => EndsLine(t)
  <2>1. CASE t = <<>>
    BY <2>1 DEF EndsLine
  <2> QED
    BY <1>7, <2>1
<1> QED
  BY <1>3, <1>8, <1>9, <1>10 DEF r

(* The wrapper. *)
LEMMA WrapperContents ==
    /\ Wrapper \in Seq(Tokens) /\ Len(Wrapper) = 3
    /\ Wrapper[1] = "begin" /\ Wrapper[2] = "end" /\ Wrapper[3] = "break"
    /\ Apart(Wrapper) /\ EndsLine(Wrapper) /\ LineCount(Wrapper) = 0
    /\ Places(Wrapper, "begin") = {1}
<1>1. /\ "break" \in Tokens /\ "begin" \in Tokens /\ "end" \in Tokens
  BY DEF Tokens
<1>2. /\ Wrapper \in Seq(Tokens) /\ Len(Wrapper) = 3 /\ DOMAIN Wrapper = 1 .. 3
      /\ Wrapper[1] = "begin" /\ Wrapper[2] = "end" /\ Wrapper[3] = "break"
  BY <1>1 DEF Wrapper
<1>3. \A i \in 1 .. 3 : i = 1 \/ i = 2 \/ i = 3
  OBVIOUS
<1>4. Places(Wrapper, "user") = {} /\ Places(Wrapper, "begin") = {1}
  BY <1>2, <1>3 DEF Places
<1>5. LineCount(Wrapper) = 0
  BY <1>4, FS_EmptySet DEF LineCount
<1> QED
  BY <1>2, <1>4, <1>5 DEF Apart, EndsLine, At

(* Two texts in a row are plain if each of them is. *)
LEMMA JoinPlain ==
    ASSUME NEW p \in Seq(Tokens), NEW q \in Seq(Tokens)
    PROVE  /\ p \o q \in Plain <=> p \in Plain /\ q \in Plain
           /\ LineCount(p \o q) = LineCount(p) + LineCount(q)
<1>1. p \o q \in Seq(Tokens)
  BY ConcatProperties
<1>2. Places(p \o q, "begin") =
         Places(p, "begin") \cup {i + Len(p) : i \in Places(q, "begin")}
  BY JoinPlaces
<1>3. p \o q \in Plain <=> p \in Plain /\ q \in Plain
  BY <1>1, <1>2 DEF Plain
<1> QED
  BY <1>3, JoinCounts

(* The empty text, a break and a line of the user's are plain. *)
LEMMA PlainTexts ==
    /\ <<>> \in Plain /\ EndsLine(<<>>) /\ LineCount(<<>>) = 0 /\ Apart(<<>>)
    /\ <<"break">> \in Plain /\ EndsLine(<<"break">>)
    /\ LineCount(<<"break">>) = 0 /\ Apart(<<"break">>)
    /\ <<"user">> \in Plain /\ LineCount(<<"user">>) = 1 /\ Apart(<<"user">>)
    /\ <<"user", "break">> \in Plain /\ EndsLine(<<"user", "break">>)
    /\ LineCount(<<"user", "break">>) = 1 /\ Apart(<<"user", "break">>)
<1>1. "user" \in Tokens /\ "break" \in Tokens
  BY DEF Tokens
<1>2. /\ <<>> \in Seq(Tokens) /\ <<"break">> \in Seq(Tokens)
      /\ <<"user">> \in Seq(Tokens) /\ <<"user", "break">> \in Seq(Tokens)
  <2>1. ASSUME NEW a \in Tokens, NEW b \in Tokens
        PROVE  <<a>> \in Seq(Tokens) /\ <<a, b>> \in Seq(Tokens)
    OBVIOUS
  <2>2. <<>> \in Seq(Tokens)
    BY EmptySeq
  <2> QED
    BY <1>1, <2>1, <2>2, Zenon
<1>3. /\ Places(<<>>, "user") = {} /\ Places(<<>>, "begin") = {}
      /\ Places(<<"break">>, "user") = {} /\ Places(<<"break">>, "begin") = {}
      /\ Places(<<"user">>, "user") = {1} /\ Places(<<"user">>, "begin") = {}
      /\ Places(<<"user", "break">>, "user") = {1}
      /\ Places(<<"user", "break">>, "begin") = {}
  <2>1. ASSUME NEW a, NEW b, NEW c, NEW token
        PROVE  /\ Places(<<>>, token) = {}
               /\ Places(<<a>>, token) = IF a = token THEN {1} ELSE {}
               /\ b # token => Places(<<a, b>>, token) = IF a = token THEN {1} ELSE {}
    BY DEF Places
  <2> QED
    BY <2>1
<1>4. /\ LineCount(<<>>) = 0 /\ LineCount(<<"break">>) = 0
      /\ LineCount(<<"user">>) = 1 /\ LineCount(<<"user", "break">>) = 1
  BY <1>3, FS_EmptySet, FS_Singleton DEF LineCount
<1>5. /\ Apart(<<>>) /\ Apart(<<"break">>) /\ Apart(<<"user">>)
      /\ Apart(<<"user", "break">>)
  <2>1. At(<<"user", "break">>, 2, "break") /\ Len(<<"user">>) = 1
    BY DEF At
  <2> QED
    BY <1>3, <2>1 DEF Apart
<1>6. EndsLine(<<>>) /\ EndsLine(<<"break">>) /\ EndsLine(<<"user", "break">>)
  BY DEF EndsLine, At
<1> QED
  BY <1>2, <1>3, <1>4, <1>5, <1>6 DEF Plain

(* Completing the last line of a plain text adds no line and is done once. *)
LEMMA WholeLinesPlain ==
    ASSUME NEW p \in Plain
    PROVE  /\ WholeLines(p) \in Plain /\ EndsLine(WholeLines(p))
           /\ LineCount(WholeLines(p)) = LineCount(p)
           /\ Apart(p) => Apart(WholeLines(p))
           /\ WholeLines(WholeLines(p)) = WholeLines(p)
<1>1. p \in Seq(Tokens) /\ Places(p, "begin") = {}
  BY DEF Plain
<1>2. CASE EndsLine(p)
  BY <1>2 DEF WholeLines
<1>3. CASE ~ EndsLine(p)
  <2> DEFINE r == p \o <<"break">>
  <2>1. WholeLines(p) = r
    <3>1. "break" \in Tokens
      BY DEF Tokens
    <3> QED
      BY <1>1, <1>3, <3>1, AppendIsConcat DEF WholeLines
  <2>2. /\ <<"break">> \in Seq(Tokens) /\ <<"break">> \in Plain
        /\ Places(<<"break">>, "begin") = {} /\ Places(<<"break">>, "user") = {}
        /\ LineCount(<<"break">>) = 0
    <3>1. Places(<<"break">>, "user") = {}
      BY DEF Places
    <3> QED
      BY <3>1, PlainTexts DEF Plain
  <2>3. /\ Len(p) \in Nat /\ DOMAIN p = 1 .. Len(p)
        /\ Len(<<"break">>) = 1 /\ <<"break">>[1] = "break"
    BY <1>1
  <2>4. /\ r \in Seq(Tokens) /\ Len(r) = Len(p) + 1
        /\ \A i \in 1 .. Len(p) + 1 :
              r[i] = IF i <= Len(p) THEN p[i] ELSE <<"break">>[i - Len(p)]
    BY <1>1, <2>2, <2>3, ConcatProperties
  <2>5. /\ Places(r, "user") = Places(p, "user")
        /\ Places(r, "begin") = {}
    <3>1. ASSUME NEW token, Places(<<"break">>, token) = {}
          PROVE  Places(r, token) = Places(p, token)
      <4>1. Places(r, token) =
               Places(p, token) \cup {i + Len(p) : i \in Places(<<"break">>, token)}
        BY <1>1, <2>2, JoinPlaces
      <4> QED
        BY <3>1, <4>1
    <3> QED
      BY <1>1, <2>2, <3>1
  <2>6. LineCount(r) = LineCount(p)
    BY <2>5 DEF LineCount
  <2> HIDE DEF r
  <2>7. At(r, Len(p) + 1, "break")
    <3>1. /\ Len(p) + 1 \in 1 .. Len(p) + 1 /\ ~ (Len(p) + 1 <= Len(p))
          /\ (Len(p) + 1) - Len(p) = 1
      BY <2>3
    <3>2. r[Len(p) + 1] = <<"break">>[(Len(p) + 1) - Len(p)]
      BY <2>4, <3>1
    <3>3. DOMAIN r = 1 .. Len(p) + 1
      BY <2>4
    <3> QED
      BY <2>3, <3>1, <3>2, <3>3 DEF At
  <2>8. EndsLine(r)
    BY <2>4, <2>7 DEF EndsLine
  <2>9. ASSUME Apart(p) PROVE Apart(r)
    <3>1. ASSUME NEW i \in Places(p, "user") PROVE At(r, i + 1, "break")
      <4>1. i \in 1 .. Len(p)
        BY <2>3 DEF Places
      <4>2. CASE i = Len(p)
        BY <2>7, <4>2
      <4>3. CASE i < Len(p)
        <5>1. i + 1 \in 1 .. Len(p) /\ p[i + 1] = "break"
          BY <1>1, <2>3, <2>9, <4>3 DEF Apart, At
        <5>2. i + 1 \in 1 .. Len(p) + 1 /\ i + 1 <= Len(p)
          BY <2>3, <5>1
        <5>3. DOMAIN r = 1 .. Len(p) + 1
          BY <2>4
        <5> QED
          BY <2>4, <5>1, <5>2, <5>3 DEF At
      <4>4. i = Len(p) \/ i < Len(p)
        <5>1. Len(p) \in Nat
          BY <1>1
        <5> QED
          BY <4>1, <5>1
      <4> QED
        BY <4>2, <4>3, <4>4
    <3> QED
      BY <2>5, <3>1 DEF Apart
  <2> QED
    BY <2>1, <2>4, <2>5, <2>6, <2>8, <2>9 DEF Plain, WholeLines
<1> QED
  BY <1>2, <1>3


(* What is where in a text around a wrapper. *)
LEMMA AroundContents ==
    ASSUME NEW p \in Plain, NEW q \in Plain
    PROVE  /\ Around(p, q) \in Seq(Tokens)
           /\ Len(Around(p, q)) = Len(p) + 3 + Len(q)
           /\ \A i \in 1 .. Len(p) : Around(p, q)[i] = p[i]
           /\ Around(p, q)[Len(p) + 1] = "begin"
           /\ Around(p, q)[Len(p) + 2] = "end"
           /\ Around(p, q)[Len(p) + 3] = "break"
           /\ \A i \in Len(p) + 4 .. Len(p) + 3 + Len(q) :
                 Around(p, q)[i] = q[i - (Len(p) + 3)]
<1>1. /\ p \in Seq(Tokens) /\ q \in Seq(Tokens)
      /\ Len(p) \in Nat /\ Len(q) \in Nat
      /\ Wrapper \in Seq(Tokens) /\ Len(Wrapper) = 3
  BY WrapperContents DEF Plain
<1> DEFINE s == Wrapper \o q
           r == Around(p, q)
<1>2. /\ s \in Seq(Tokens) /\ Len(s) = 3 + Len(q)
      /\ \A i \in 1 .. 3 + Len(q) : s[i] = IF i <= 3 THEN Wrapper[i] ELSE q[i - 3]
  <2>1. /\ s \in Seq(Tokens) /\ Len(s) = Len(Wrapper) + Len(q)
        /\ \A i \in 1 .. Len(Wrapper) + Len(q) :
              s[i] = IF i <= Len(Wrapper) THEN Wrapper[i] ELSE q[i - Len(Wrapper)]
    BY <1>1, ConcatProperties
  <2> HIDE DEF s
  <2> QED
    BY <1>1, <2>1
<1>3. r = p \o s
  BY DEF Around
<1> HIDE DEF r, s
<1>4. /\ r \in Seq(Tokens) /\ Len(r) = Len(p) + Len(s)
      /\ \A i \in 1 .. Len(p) + Len(s) :
            r[i] = IF i <= Len(p) THEN p[i] ELSE s[i - Len(p)]
  <2>1. p \in Seq(Tokens) /\ s \in Seq(Tokens)
    BY <1>1, <1>2
  <2>2. /\ p \o s \in Seq(Tokens) /\ Len(p \o s) = Len(p) + Len(s)
        /\ \A i \in 1 .. Len(p) + Len(s) :
              (p \o s)[i] = IF i <= Len(p) THEN p[i] ELSE s[i - Len(p)]
    BY <2>1, ConcatProperties
  <2> QED
    BY <1>3, <2>2, Zenon
<1>5. ASSUME NEW i \in 1 .. 3 PROVE r[Len(p) + i] = Wrapper[i]
  <2>1. /\ Len(p) + i \in 1 .. Len(p) + Len(s) /\ ~ (Len(p) + i <= Len(p))
        /\ (Len(p) + i) - Len(p) = i /\ i \in 1 .. 3 + Len(q)
    BY <1>1, <1>2
  <2>2. r[Len(p) + i] = s[(Len(p) + i) - Len(p)]
    BY <1>4, <2>1
  <2>3. s[i] = Wrapper[i]
    BY <1>2, <2>1
  <2> QED
    BY <2>1, <2>2, <2>3
<1>6. ASSUME NEW i \in Len(p) + 4 .. Len(p) + 3 + Len(q)
      PROVE  r[i] = q[i - (Len(p) + 3)]
  <2>1. /\ i \in 1 .. Len(p) + Len(s) /\ ~ (i <= Len(p))
        /\ i - Len(p) \in 1 .. 3 + Len(q) /\ ~ (i - Len(p) <= 3)
        /\ (i - Len(p)) - 3 = i - (Len(p) + 3)
    BY <1>1, <1>2
  <2>2. r[i] = s[i - Len(p)]
    BY <1>4, <2>1
  <2>3. s[i - Len(p)] = q[(i - Len(p)) - 3]
    BY <1>2, <2>1
  <2> QED
    BY <2>1, <2>2, <2>3
<1>7. \A i \in 1 .. Len(p) : r[i] = p[i]
  BY <1>1, <1>2, <1>4
<1>8. Len(r) = Len(p) + 3 + Len(q)
  BY <1>1, <1>2, <1>4
<1>9. r[Len(p) + 1] = "begin" /\ r[Len(p) + 2] = "end" /\ r[Len(p) + 3] = "break"
  <2>1. 1 \in 1 .. 3 /\ 2 \in 1 .. 3 /\ 3 \in 1 .. 3
    OBVIOUS
  <2> QED
    BY <1>5, <2>1, WrapperContents
<1> QED
  BY <1>4, <1>6, <1>7, <1>8, <1>9 DEF r

(* A text around a wrapper has the lines of the two parts, apart if they   *)
(* are, and its only block begins after the first.                         *)
LEMMA AroundIsWhole ==
    ASSUME NEW p \in Plain, NEW q \in Plain, EndsLine(p)
    PROVE  /\ LineCount(Around(p, q)) = LineCount(p) + LineCount(q)
           /\ Apart(Around(p, q)) <=> Apart(p) /\ Apart(q)
           /\ EndsLine(Around(p, q)) <=> EndsLine(q)
           /\ Places(Around(p, q), "begin") = {Len(p) + 1}
<1>1. /\ p \in Seq(Tokens) /\ q \in Seq(Tokens)
      /\ Places(p, "begin") = {} /\ Places(q, "begin") = {}
      /\ Len(p) \in Nat
  BY DEF Plain
<1>2. /\ Wrapper \in Seq(Tokens) /\ Apart(Wrapper) /\ EndsLine(Wrapper)
      /\ LineCount(Wrapper) = 0
  BY WrapperContents
<1>3. Wrapper \o q \in Seq(Tokens)
  BY <1>1, <1>2, ConcatProperties
<1>4. Apart(Around(p, q)) <=> Apart(p) /\ Apart(q)
  <2>1. Apart(Wrapper \o q) <=> Apart(q)
    BY <1>1, <1>2, PartsApart
  <2>2. Apart(p \o (Wrapper \o q)) <=> Apart(p) /\ Apart(Wrapper \o q)
    BY <1>1, <1>3, PartsApart
  <2> QED
    BY <2>1, <2>2 DEF Around
<1>5. EndsLine(Around(p, q)) <=> EndsLine(q)
  <2>1. EndsLine(Wrapper \o q) <=> EndsLine(q)
    BY <1>1, <1>2, PartsApart
  <2>2. EndsLine(p \o (Wrapper \o q)) <=> EndsLine(Wrapper \o q)
    BY <1>1, <1>3, PartsApart
  <2> QED
    BY <2>1, <2>2 DEF Around
<1>6. LineCount(Around(p, q)) = LineCount(p) + LineCount(q)
  <2>1. /\ LineCount(p) \in Nat /\ LineCount(q) \in Nat
        /\ LineCount(p \o (Wrapper \o q)) = LineCount(p) + LineCount(Wrapper \o q)
        /\ LineCount(Wrapper \o q) = LineCount(Wrapper) + LineCount(q)
    BY <1>1, <1>2, <1>3, JoinCounts
  <2> QED
    BY <1>2, <2>1 DEF Around
<1>7. Places(Around(p, q), "begin") = {Len(p) + 1}
  <2>1. Places(Wrapper \o q, "begin") = {1}
    <3>1. Places(Wrapper \o q, "begin") =
             Places(Wrapper, "begin") \cup {i + Len(Wrapper) : i \in Places(q, "begin")}
      BY <1>1, <1>2, JoinPlaces
    <3> QED
      BY <1>1, <3>1, WrapperContents
  <2>2. Places(p \o (Wrapper \o q), "begin") =
           Places(p, "begin") \cup {i + Len(p) : i \in Places(Wrapper \o q, "begin")}
    BY <1>1, <1>3, JoinPlaces
  <2>3. {i + Len(p) : i \in {1}} = {Len(p) + 1}
    BY <1>1
  <2> QED
    BY <1>1, <2>1, <2>2, <2>3 DEF Around
<1> QED
  BY <1>4, <1>5, <1>6, <1>7

(* Stripping leaves a plain text alone. *)
LEMMA StripPlain ==
    ASSUME NEW p \in Plain
    PROVE  StripMarkedBlock(p) = p
<1>1. First(p, "begin", 1) \subseteq Places(p, "begin")
  BY DEF First, Places, Plain
<1>2. First(p, "begin", 1) = {}
  BY <1>1 DEF Plain
<1> QED
  BY <1>2 DEF StripMarkedBlock

(* A text without its last break. *)
Trimmed(p) == IF p = <<>> THEN <<>> ELSE SubSeq(p, 1, Len(p) - 1)

(* A text that ends its line without the break of that line. *)
LEMMA TrimmedPlain ==
    ASSUME NEW p \in Plain, EndsLine(p)
    PROVE  /\ Trimmed(p) \in Plain /\ LineCount(Trimmed(p)) = LineCount(p)
           /\ p # <<>> => /\ p = Trimmed(p) \o <<"break">>
                          /\ Len(Trimmed(p)) = Len(p) - 1
           /\ \A i \in 1 .. Len(Trimmed(p)) : Trimmed(p)[i] = p[i]
<1>1. CASE p = <<>>
  <2>1. Trimmed(p) = <<>>
    BY <1>1 DEF Trimmed
  <2> QED
    BY <1>1, <2>1
<1>2. CASE p # <<>>
  <2> DEFINE s == SubSeq(p, 1, Len(p) - 1)
  <2>1. /\ p \in Seq(Tokens) /\ Len(p) \in Nat /\ Len(p) >= 1
        /\ \A i \in 1 .. Len(p) : p[i] \in Tokens
    BY <1>2 DEF Plain
  <2>2. p[Len(p)] = "break"
    BY <1>2 DEF EndsLine, At
  <2>3. /\ s \in Seq(Tokens) /\ Len(s) = Len(p) - 1
        /\ \A i \in 1 .. Len(p) - 1 : s[i] = p[i]
    <3>1. \A i \in 1 .. Len(p) - 1 : p[i] \in Tokens
      BY <2>1
    <3>2. /\ s \in Seq(Tokens)
          /\ Len(s) = IF 1 <= Len(p) - 1 THEN (Len(p) - 1) - 1 + 1 ELSE 0
          /\ \A i \in 1 .. (Len(p) - 1) - 1 + 1 : s[i] = p[1 + i - 1]
      BY <2>1, <3>1, SubSeqProperties
    <3> HIDE DEF s
    <3>3. Len(s) = Len(p) - 1
      <4>1. ASSUME NEW n \in Nat, n >= 1
            PROVE  (IF 1 <= n - 1 THEN (n - 1) - 1 + 1 ELSE 0) = n - 1
        BY <4>1
      <4>2. (IF 1 <= Len(p) - 1 THEN (Len(p) - 1) - 1 + 1 ELSE 0) = Len(p) - 1
        BY <2>1, <4>1
      <4> QED
        BY <3>2, <4>2
    <3>4. ASSUME NEW i \in 1 .. Len(p) - 1 PROVE s[i] = p[i]
      <4>1. 1 + i - 1 = i /\ i \in 1 .. (Len(p) - 1) - 1 + 1
        BY <2>1
      <4>2. s[i] = p[1 + i - 1]
        BY <3>2, <4>1
      <4> QED
        BY <4>1, <4>2
    <3> QED
      BY <3>2, <3>3, <3>4
  <2> HIDE DEF s
  <2>4. <<"break">> \in Seq(Tokens) /\ Len(<<"break">>) = 1 /\ <<"break">>[1] = "break"
    BY DEF Tokens
  <2>5. /\ s \o <<"break">> \in Seq(Tokens) /\ Len(s \o <<"break">>) = Len(p)
        /\ \A i \in 1 .. Len(p) :
              (s \o <<"break">>)[i] = IF i <= Len(s) THEN s[i]
                                      ELSE <<"break">>[i - Len(s)]
    <3>1. /\ s \o <<"break">> \in Seq(Tokens)
          /\ Len(s \o <<"break">>) = Len(s) + Len(<<"break">>)
          /\ \A i \in 1 .. Len(s) + Len(<<"break">>) :
                (s \o <<"break">>)[i] = IF i <= Len(s) THEN s[i]
                                        ELSE <<"break">>[i - Len(s)]
      BY <2>3, <2>4, ConcatProperties
    <3>2. Len(s) + Len(<<"break">>) = Len(p)
      BY <2>1, <2>3, <2>4
    <3> QED
      BY <3>1, <3>2
  <2>6. ASSUME NEW i \in 1 .. Len(p) PROVE (s \o <<"break">>)[i] = p[i]
    <3>1. CASE i <= Len(s)
      <4>1. i \in 1 .. Len(p) - 1
        BY <2>1, <2>3, <3>1
      <4> QED
        BY <2>3, <2>5, <3>1, <4>1
    <3>2. CASE ~ (i <= Len(s))
      <4>1. i = Len(p) /\ i - Len(s) = 1
        BY <2>1, <2>3, <3>2
      <4> QED
        BY <2>2, <2>4, <2>5, <3>2, <4>1
    <3> QED
      BY <3>1, <3>2
  <2>7. p = s \o <<"break">>
    BY <2>1, <2>5, <2>6, SeqEqual
  <2>8. s \in Plain /\ LineCount(p) = LineCount(s) + LineCount(<<"break">>)
    BY <2>3, <2>4, <2>7, JoinPlain
  <2>9. LineCount(s) \in Nat /\ LineCount(<<"break">>) = 0
    BY <2>3, JoinCounts, PlainTexts
  <2>10. Trimmed(p) = s
    BY <1>2 DEF Trimmed, s
  <2> QED
    BY <2>1, <2>3, <2>7, <2>8, <2>9, <2>10
<1> QED
  BY <1>1, <1>2

(* Stripping what is around a wrapper leaves the text before it, without   *)
(* its last break, and the text after it.                                  *)
LEMMA StripAround ==
    ASSUME NEW p \in Plain, NEW q \in Plain, EndsLine(p)
    PROVE  StripMarkedBlock(Around(p, q)) = Trimmed(p) \o q
<1> DEFINE r == Around(p, q)
           n == Len(p)
           m == IF p = <<>> THEN n + 1 ELSE n
<1>1. /\ p \in Seq(Tokens) /\ q \in Seq(Tokens)
      /\ n \in Nat /\ Len(q) \in Nat
      /\ p = <<>> <=> n = 0
  BY DEF Plain
<1>2. /\ r \in Seq(Tokens) /\ Len(r) = n + 3 + Len(q)
      /\ DOMAIN r = 1 .. n + 3 + Len(q)
      /\ \A i \in 1 .. n : r[i] = p[i]
      /\ r[n + 1] = "begin" /\ r[n + 2] = "end" /\ r[n + 3] = "break"
      /\ \A i \in n + 4 .. n + 3 + Len(q) : r[i] = q[i - (n + 3)]
  <2>1. /\ r \in Seq(Tokens) /\ Len(r) = n + 3 + Len(q)
        /\ \A i \in 1 .. n : r[i] = p[i]
        /\ r[n + 1] = "begin" /\ r[n + 2] = "end" /\ r[n + 3] = "break"
        /\ \A i \in n + 4 .. n + 3 + Len(q) : r[i] = q[i - (n + 3)]
    BY AroundContents
  <2> HIDE DEF r, n
  <2>2. DOMAIN r = 1 .. n + 3 + Len(q)
    BY <2>1
  <2> QED
    BY <2>1, <2>2
<1>3. Places(r, "begin") = {n + 1}
  BY AroundIsWhole
<1>4. p # <<>> => p[n] = "break"
  BY DEF EndsLine, At
<1>5. /\ Trimmed(p) \in Seq(Tokens)
      /\ Len(Trimmed(p)) = m - 1
      /\ \A i \in 1 .. m - 1 : Trimmed(p)[i] = p[i]
  <2>1. /\ Trimmed(p) \in Seq(Tokens)
        /\ p # <<>> => Len(Trimmed(p)) = n - 1
        /\ \A i \in 1 .. Len(Trimmed(p)) : Trimmed(p)[i] = p[i]
    BY TrimmedPlain DEF Plain
  <2>2. p = <<>> => Len(Trimmed(p)) = 0
    BY DEF Trimmed
  <2> QED
    BY <1>1, <2>1, <2>2
<1>6. m \in Nat /\ m >= 1 /\ m <= n + 1
  BY <1>1
<1> HIDE DEF r, n
<1>7. n + 1 \in First(r, "begin", 1) /\ First(r, "begin", 1) \subseteq {n + 1}
  <2>1. n + 1 \in 1 .. Len(r)
    BY <1>1, <1>2
  <2>2. \A j \in 1 .. (n + 1) - 1 : r[j] # "begin"
    <3>1. \A j \in 1 .. (n + 1) - 1 : j \in DOMAIN r /\ j # n + 1
      BY <1>1, <1>2
    <3> QED
      BY <1>3, <3>1 DEF Places
  <2>3. First(r, "begin", 1) \subseteq Places(r, "begin")
    BY <1>2 DEF First, Places
  <2> QED
    BY <1>2, <1>3, <2>1, <2>2, <2>3 DEF First
<1>8. n + 2 \in First(r, "end", n + 1) /\ First(r, "end", n + 1) \subseteq {n + 2}
  <2>1. n + 2 \in n + 1 .. Len(r)
    BY <1>1, <1>2
  <2>2. \A j \in n + 1 .. (n + 2) - 1 : j = n + 1
    BY <1>1
  <2>3. \A j \in n + 1 .. (n + 2) - 1 : r[j] # "end"
    BY <1>2, <2>2
  <2>4. ASSUME NEW e \in First(r, "end", n + 1) PROVE e = n + 2
    <3>1. /\ e \in n + 1 .. Len(r) /\ r[e] = "end"
          /\ \A j \in n + 1 .. e - 1 : r[j] # "end"
      BY DEF First
    <3>2. e # n + 1
      BY <1>2, <3>1
    <3>3. ~ (e > n + 2)
      <4>1. SUFFICES ASSUME e > n + 2 PROVE FALSE
        OBVIOUS
      <4>2. n + 2 \in n + 1 .. e - 1
        BY <1>1, <1>2, <3>1, <4>1
      <4> QED
        BY <1>2, <3>1, <4>2
    <3> QED
      BY <1>1, <1>2, <3>1, <3>2, <3>3
  <2> QED
    BY <1>2, <2>1, <2>3, <2>4 DEF First
<1>9. PICK b \in 1 .. Len(r), e \in 1 .. Len(r) :
         /\ b \in First(r, "begin", 1) /\ e \in First(r, "end", b)
         /\ StripMarkedBlock(r) =
               Without(r, IF At(r, b - 1, "break") THEN b - 1 ELSE b,
                          IF At(r, e + 1, "break") THEN e + 1 ELSE e)
  BY <1>2, <1>7, <1>8, BlockOf
<1>10. b = n + 1 /\ e = n + 2
  BY <1>7, <1>8, <1>9
<1>11. At(r, e + 1, "break") /\ e + 1 = n + 3
  <2>1. e + 1 = n + 3 /\ n + 3 \in DOMAIN r
    BY <1>1, <1>2, <1>10
  <2> QED
    BY <1>2, <2>1 DEF At
<1>12. (IF At(r, b - 1, "break") THEN b - 1 ELSE b) = m
  <2>1. b - 1 = n
    BY <1>1, <1>10
  <2>2. CASE p = <<>>
    <3>1. ~ At(r, n, "break")
      BY <1>1, <1>2, <2>2 DEF At
    <3> QED
      BY <1>1, <1>10, <2>1, <2>2, <3>1
  <2>3. CASE p # <<>>
    <3>1. n \in 1 .. n /\ n \in DOMAIN r
      BY <1>1, <1>2, <2>3
    <3>2. At(r, n, "break")
      BY <1>2, <1>4, <2>3, <3>1 DEF At
    <3> QED
      BY <2>1, <2>3, <3>2
  <2> QED
    BY <2>2, <2>3
<1> HIDE DEF m
<1>13. StripMarkedBlock(r) = Without(r, m, n + 3)
  BY <1>9, <1>11, <1>12
<1> DEFINE w == Without(r, m, n + 3)
<1>14. /\ w \in Seq(Tokens) /\ Len(w) = (m - 1) + Len(q)
       /\ \A i \in 1 .. m - 1 : w[i] = r[i]
       /\ \A i \in m .. (m - 1) + Len(q) : w[i] = r[i + ((n + 3) - m + 1)]
  <2> DEFINE d == n + 3
  <2>1. d \in Nat /\ m <= d + 1 /\ d <= Len(r)
    BY <1>1, <1>2, <1>6
  <2>2. Len(r) - (d - m + 1) = (m - 1) + Len(q)
    BY <1>1, <1>2, <1>6
  <2> HIDE DEF d
  <2>3. /\ Without(r, m, d) \in Seq(Tokens)
        /\ Len(Without(r, m, d)) = Len(r) - (d - m + 1)
        /\ \A i \in 1 .. m - 1 : Without(r, m, d)[i] = r[i]
        /\ \A i \in m .. Len(r) - (d - m + 1) :
              Without(r, m, d)[i] = r[i + (d - m + 1)]
    BY <1>2, <1>6, <2>1, WithoutContents
  <2>4. /\ Without(r, m, d) \in Seq(Tokens)
        /\ Len(Without(r, m, d)) = (m - 1) + Len(q)
        /\ \A i \in 1 .. m - 1 : Without(r, m, d)[i] = r[i]
        /\ \A i \in m .. (m - 1) + Len(q) :
              Without(r, m, d)[i] = r[i + (d - m + 1)]
    BY <2>2, <2>3
  <2> QED
    BY <2>4 DEF d
<1> HIDE DEF w
<1> DEFINE t == Trimmed(p)
<1> HIDE DEF t
<1>15. /\ t \o q \in Seq(Tokens) /\ Len(t \o q) = (m - 1) + Len(q)
       /\ \A i \in 1 .. (m - 1) + Len(q) :
             (t \o q)[i] = IF i <= m - 1 THEN t[i] ELSE q[i - (m - 1)]
  <2>1. t \in Seq(Tokens) /\ Len(t) = m - 1
    BY <1>5 DEF t
  <2>2. /\ t \o q \in Seq(Tokens) /\ Len(t \o q) = Len(t) + Len(q)
        /\ \A i \in 1 .. Len(t) + Len(q) :
              (t \o q)[i] = IF i <= Len(t) THEN t[i] ELSE q[i - Len(t)]
    BY <1>1, <2>1, ConcatProperties
  <2> QED
    BY <2>1, <2>2
<1>16. ASSUME NEW i \in 1 .. (m - 1) + Len(q) PROVE w[i] = (t \o q)[i]
  <2>1. CASE i <= m - 1
    <3>1. i \in 1 .. m - 1 /\ i \in 1 .. n
      BY <1>1, <1>6, <2>1
    <3>2. w[i] = r[i] /\ r[i] = p[i] /\ t[i] = p[i]
      BY <1>2, <1>5, <1>14, <3>1 DEF t
    <3> QED
      BY <1>15, <2>1, <3>2
  <2>2. CASE ~ (i <= m - 1)
    <3>1. /\ i \in m .. (m - 1) + Len(q)
          /\ i + ((n + 3) - m + 1) \in n + 4 .. n + 3 + Len(q)
          /\ (i + ((n + 3) - m + 1)) - (n + 3) = i - (m - 1)
      BY <1>1, <1>6, <2>2
    <3>2. /\ w[i] = r[i + ((n + 3) - m + 1)]
          /\ r[i + ((n + 3) - m + 1)] = q[(i + ((n + 3) - m + 1)) - (n + 3)]
      BY <1>2, <1>14, <3>1
    <3>3. (t \o q)[i] = q[i - (m - 1)]
      BY <1>15, <2>2
    <3> QED
      BY <3>1, <3>2, <3>3
  <2> QED
    BY <2>1, <2>2
<1>17. w = t \o q
  BY <1>14, <1>15, <1>16, SeqEqual
<1> QED
  BY <1>13, <1>17 DEF w, r, t


(* Three texts in a row may be joined in either order. *)
LEMMA JoinsAssociate ==
    \A s, t, u \in Seq(Tokens) : (s \o t) \o u = s \o (t \o u)
<1> SUFFICES ASSUME NEW s \in Seq(Tokens), NEW t \in Seq(Tokens), NEW u \in Seq(Tokens)
             PROVE  (s \o t) \o u = s \o (t \o u)
  OBVIOUS
<1> QED
  BY ConcatAssociative

(* A text that is first, or last, in two equal rows can be left out.       *)
LEMMA JoinsCancel ==
    \A s, t, u \in Seq(Tokens) :
        /\ s \o t = s \o u => t = u
        /\ t \o s = u \o s => t = u
BY ConcatSimplifications

(* The block of a text around a wrapper begins after its first part.       *)
LEMMA BeginOfAround ==
    ASSUME NEW p \in Plain, NEW q \in Plain, EndsLine(p)
    PROVE  Len(p) + 1 \in First(Around(p, q), "begin", 1)
<1> DEFINE r == Around(p, q)
<1>1. /\ r \in Seq(Tokens) /\ Len(r) = Len(p) + 3 + Len(q)
      /\ r[Len(p) + 1] = "begin" /\ Len(p) \in Nat /\ Len(q) \in Nat
  BY AroundContents DEF Plain
<1>2. Places(r, "begin") = {Len(p) + 1}
  BY AroundIsWhole
<1> HIDE DEF r
<1>3. DOMAIN r = 1 .. Len(r) /\ Len(p) + 1 \in 1 .. Len(r)
  BY <1>1
<1>4. \A j \in 1 .. (Len(p) + 1) - 1 : j \in DOMAIN r /\ j # Len(p) + 1
  BY <1>1, <1>3
<1>5. \A j \in 1 .. (Len(p) + 1) - 1 : r[j] # "begin"
  BY <1>2, <1>4 DEF Places
<1> QED
  BY <1>1, <1>3, <1>5 DEF First, r

(* What a text has after another, with which it begins. *)
Rest(c, a) == SubSeq(c, Len(a) + 1, Len(c))

(* Of two ways to divide a text, the longer first part begins with the     *)
(* shorter.                                                                *)
LEMMA JoinsAlign ==
    \A a, b, c, d \in Seq(Tokens) :
        a \o b = c \o d /\ Len(a) <= Len(c)
           => /\ Rest(c, a) \in Seq(Tokens)
              /\ c = a \o Rest(c, a) /\ b = Rest(c, a) \o d
<1> TAKE a, b, c, d \in Seq(Tokens)
<1> HAVE a \o b = c \o d /\ Len(a) <= Len(c)
<1> DEFINE f == SubSeq(c, 1, Len(a))
           e == SubSeq(c, Len(a) + 1, Len(c))
<1>1. Len(a) \in Nat /\ Len(b) \in Nat /\ Len(c) \in Nat /\ Len(d) \in Nat
  OBVIOUS
<1>2. \A i \in 1 .. Len(c) : c[i] \in Tokens
  OBVIOUS
<1>3. e \in Seq(Tokens)
  <2>1. \A i \in Len(a) + 1 .. Len(c) : c[i] \in Tokens
    BY <1>1, <1>2
  <2> QED
    BY <1>1, <2>1, SubSeqProperties
<1>4. c = f \o e
  <2>1. /\ 1 \in 1 .. Len(c) + 1 /\ Len(a) \in 1 - 1 .. Len(c)
        /\ Len(c) \in Len(a) .. Len(c)
    BY <1>1
  <2> QED
    BY <2>1, ConcatAdjacentSubSeq, SubSeqFull
<1>5. /\ f \in Seq(Tokens) /\ Len(f) = Len(a)
      /\ \A i \in 1 .. Len(a) : f[i] = c[i]
  <2>1. \A i \in 1 .. Len(a) : c[i] \in Tokens
    BY <1>1, <1>2
  <2>2. /\ f \in Seq(Tokens)
        /\ Len(f) = IF 1 <= Len(a) THEN Len(a) - 1 + 1 ELSE 0
        /\ \A i \in 1 .. Len(a) - 1 + 1 : f[i] = c[1 + i - 1]
    BY <1>1, <2>1, SubSeqProperties
  <2> HIDE DEF f
  <2>3. ASSUME NEW n \in Nat PROVE (IF 1 <= n THEN n - 1 + 1 ELSE 0) = n
    OBVIOUS
  <2>4. Len(f) = Len(a)
    BY <1>1, <2>2, <2>3
  <2>5. ASSUME NEW i \in 1 .. Len(a) PROVE f[i] = c[i]
    <3>1. 1 + i - 1 = i /\ i \in 1 .. Len(a) - 1 + 1
      BY <1>1
    <3>2. f[i] = c[1 + i - 1]
      BY <2>2, <3>1
    <3> QED
      BY <3>1, <3>2
  <2> QED
    BY <2>2, <2>4, <2>5
<1>6. ASSUME NEW i \in 1 .. Len(a) PROVE f[i] = a[i]
  <2>1. (a \o b)[i] = a[i]
    <3>1. i \in 1 .. Len(a) + Len(b) /\ i <= Len(a)
      BY <1>1
    <3> QED
      BY <3>1, ConcatProperties
  <2>2. (c \o d)[i] = c[i]
    <3>1. i \in 1 .. Len(c) + Len(d) /\ i <= Len(c)
      BY <1>1
    <3> QED
      BY <3>1, ConcatProperties
  <2> QED
    BY <1>5, <2>1, <2>2
<1> HIDE DEF e, f
<1>7. f = a
  BY <1>5, <1>6, SeqEqual
<1>8. a \o b = a \o (e \o d)
  <2>1. a \o b = (a \o e) \o d
    BY <1>4, <1>7
  <2> QED
    BY <1>3, <2>1, JoinsAssociate
<1>9. b = e \o d
  <2>1. e \o d \in Seq(Tokens)
    BY <1>3, ConcatProperties
  <2> QED
    BY <1>8, <2>1, JoinsCancel, Zenon
<1> QED
  BY <1>3, <1>4, <1>7, <1>9 DEF Rest, e

(* The last line of a text around a wrapper is that of its second part.    *)
LEMMA WholeLinesAround ==
    ASSUME NEW p \in Plain, NEW q \in Plain, EndsLine(p)
    PROVE  WholeLines(Around(p, q)) = Around(p, WholeLines(q))
<1> DEFINE r == Around(p, q)
<1>1. /\ p \in Seq(Tokens) /\ q \in Seq(Tokens) /\ Wrapper \in Seq(Tokens)
      /\ <<"break">> \in Seq(Tokens) /\ "break" \in Tokens
  BY WrapperContents DEF Plain, Tokens
<1>2. r \in Seq(Tokens)
  BY AroundContents
<1>3. EndsLine(r) <=> EndsLine(q)
  BY AroundIsWhole
<1>4. CASE EndsLine(q)
  BY <1>3, <1>4 DEF WholeLines
<1>5. CASE ~ EndsLine(q)
  <2>1. WholeLines(r) = r \o <<"break">> /\ WholeLines(q) = q \o <<"break">>
    <3> HIDE DEF r
    <3> QED
      BY <1>1, <1>2, <1>3, <1>5, AppendIsConcat DEF WholeLines
  <2>2. (p \o (Wrapper \o q)) \o <<"break">> = p \o ((Wrapper \o q) \o <<"break">>)
    <3>1. Wrapper \o q \in Seq(Tokens)
      BY <1>1, ConcatProperties
    <3> QED
      BY <1>1, <3>1, JoinsAssociate
  <2>3. (Wrapper \o q) \o <<"break">> = Wrapper \o (q \o <<"break">>)
    BY <1>1, JoinsAssociate
  <2> QED
    BY <2>1, <2>2, <2>3 DEF Around
<1> QED
  BY <1>4, <1>5

(* A wrapper is put around the end of a text, after a blank line.          *)
LEMMA WrapperIsLast ==
    ASSUME NEW text \in Seq(Tokens), StripMarkedBlock(text) \in Plain
    PROVE  WithWrapper(text) =
              Around(WholeLines(StripMarkedBlock(text)) \o <<"break">>, <<>>)
<1>1. WithWrapper(text) =
         (WholeLines(StripMarkedBlock(text)) \o <<"break">>) \o Wrapper
  BY DEF WithWrapper
<1>2. Wrapper \o <<>> = Wrapper
  BY WrapperContents, ConcatEmptySeq
<1> QED
  BY <1>1, <1>2 DEF Around

(* What a text is followed by when a wrapper is put there.                 *)
LEMMA BlankAfter ==
    ASSUME NEW p \in Plain, EndsLine(p)
    PROVE  /\ p \o <<"break">> \in Plain /\ EndsLine(p \o <<"break">>)
           /\ LineCount(p \o <<"break">>) = LineCount(p)
           /\ Apart(p) => Apart(p \o <<"break">>)
           /\ Trimmed(p \o <<"break">>) = p
<1>1. /\ p \in Seq(Tokens) /\ <<"break">> \in Seq(Tokens)
      /\ <<"break">> \in Plain /\ EndsLine(<<"break">>) /\ Apart(<<"break">>)
      /\ LineCount(<<"break">>) = 0 /\ LineCount(p) \in Nat
  BY PlainTexts, JoinCounts DEF Plain
<1> DEFINE r == p \o <<"break">>
<1>2. r \in Plain /\ EndsLine(r) /\ LineCount(r) = LineCount(p)
  <2>1. r \in Plain /\ EndsLine(r)
    BY <1>1, JoinPlain, PartsApart
  <2>2. LineCount(r) = LineCount(p) + LineCount(<<"break">>)
    BY <1>1, JoinPlain
  <2> HIDE DEF r
  <2> QED
    BY <1>1, <2>1, <2>2
<1>3. Apart(p) => Apart(r)
  BY <1>1, PartsApart
<1>4. r # <<>>
  BY <1>1, ConcatSimplifications!concIsEmpty
<1> HIDE DEF r
<1>5. r = Trimmed(r) \o <<"break">> /\ Trimmed(r) \in Seq(Tokens)
  BY <1>2, <1>4, TrimmedPlain DEF Plain
<1>6. Trimmed(r) = p
  BY <1>1, <1>5, JoinsCancel, Zenon DEF r
<1> QED
  BY <1>2, <1>3, <1>6 DEF r

(* Two texts in a row, and what is known of them.                          *)
Row(s, t) == s \o t

LEMMA RowFacts ==
    \A s, t \in Seq(Tokens) :
        /\ Row(s, t) \in Seq(Tokens)
        /\ Len(Row(s, t)) = Len(s) + Len(t)
        /\ \A i \in 1 .. Len(s) : Row(s, t)[i] = s[i]
        /\ \A i \in 1 .. Len(t) : Row(s, t)[Len(s) + i] = t[i]
<1> SUFFICES ASSUME NEW s \in Seq(Tokens), NEW t \in Seq(Tokens)
             PROVE  /\ s \o t \in Seq(Tokens)
                    /\ Len(s \o t) = Len(s) + Len(t)
                    /\ \A i \in 1 .. Len(s) : (s \o t)[i] = s[i]
                    /\ \A i \in 1 .. Len(t) : (s \o t)[Len(s) + i] = t[i]
  BY Zenon DEF Row
<1>1. /\ Len(s) \in Nat /\ Len(t) \in Nat
      /\ s \o t \in Seq(Tokens)
      /\ Len(s \o t) = Len(s) + Len(t)
      /\ \A i \in 1 .. Len(s) + Len(t) :
            (s \o t)[i] = IF i <= Len(s) THEN s[i] ELSE t[i - Len(s)]
  BY ConcatProperties
<1> DEFINE r == s \o t
<1> HIDE DEF r
<1>2. ASSUME NEW i \in 1 .. Len(s) PROVE r[i] = s[i]
  <2>1. i \in 1 .. Len(s) + Len(t) /\ i <= Len(s)
    BY <1>1
  <2> QED
    BY <1>1, <2>1 DEF r
<1>3. ASSUME NEW i \in 1 .. Len(t) PROVE r[Len(s) + i] = t[i]
  <2>1. /\ Len(s) + i \in 1 .. Len(s) + Len(t) /\ ~ (Len(s) + i <= Len(s))
        /\ (Len(s) + i) - Len(s) = i
    BY <1>1
  <2>2. r[Len(s) + i] = t[(Len(s) + i) - Len(s)]
    BY <1>1, <2>1 DEF r
  <2> QED
    BY <2>1, <2>2
<1> QED
  BY <1>1, <1>2, <1>3 DEF r

LEMMA RowTexts ==
    \A s, t \in Seq(Tokens) :
        /\ Row(s, t) \in Plain <=> s \in Plain /\ t \in Plain
        /\ LineCount(s) \in Nat
        /\ LineCount(Row(s, t)) = LineCount(s) + LineCount(t)
        /\ EndsLine(s) => /\ Apart(Row(s, t)) <=> Apart(s) /\ Apart(t)
                          /\ EndsLine(Row(s, t)) <=> EndsLine(t)
<1> SUFFICES ASSUME NEW s \in Seq(Tokens), NEW t \in Seq(Tokens)
             PROVE  /\ s \o t \in Plain <=> s \in Plain /\ t \in Plain
                    /\ LineCount(s) \in Nat
                    /\ LineCount(s \o t) = LineCount(s) + LineCount(t)
                    /\ EndsLine(s) => /\ Apart(s \o t) <=> Apart(s) /\ Apart(t)
                                      /\ EndsLine(s \o t) <=> EndsLine(t)
  BY Zenon DEF Row
<1>1. s \o t \in Plain <=> s \in Plain /\ t \in Plain
  BY JoinPlain
<1>2. LineCount(s) \in Nat /\ LineCount(s \o t) = LineCount(s) + LineCount(t)
  BY JoinCounts
<1>3. EndsLine(s) => /\ Apart(s \o t) <=> Apart(s) /\ Apart(t)
                     /\ EndsLine(s \o t) <=> EndsLine(t)
  BY PartsApart
<1> QED
  BY <1>1, <1>2, <1>3, Zenon

LEMMA RowsAssociate ==
    \A s, t, u \in Seq(Tokens) : Row(Row(s, t), u) = Row(s, Row(t, u))
BY JoinsAssociate, Zenon DEF Row

LEMMA RowsAlign ==
    \A a, b, c, d \in Seq(Tokens) :
        Row(a, b) = Row(c, d) /\ Len(a) <= Len(c)
           => /\ Rest(c, a) \in Seq(Tokens)
              /\ c = Row(a, Rest(c, a)) /\ b = Row(Rest(c, a), d)
BY JoinsAlign, Zenon DEF Row

(* What an edit takes away at most: a blank line. *)
BreakAtMost(x) ==
    /\ x \in Plain /\ EndsLine(x) /\ LineCount(x) = 0
    /\ Len(x) = 0 \/ (Len(x) = 1 /\ x[1] = "break")

(* Whole lines that are put in or taken out where a line begins leave a    *)
(* whole text, and none is run into another.                               *)
LEMMA EditedText ==
    ASSUME NEW s \in Seq(Tokens), NEW u \in Seq(Tokens), EndsLine(s),
           NEW x, BreakAtMost(x),
           NEW y \in Plain, EndsLine(y), Apart(y),
           NEW n, Whole(Row(s, Row(x, u)), n)
    PROVE  /\ Whole(Row(s, Row(y, u)), n + LineCount(y))
           /\ Apart(Row(s, Row(x, u))) => Apart(Row(s, Row(y, u)))
<1>1. x \in Seq(Tokens) /\ y \in Seq(Tokens) /\ x \in Plain /\ EndsLine(x)
  BY DEF Plain, BreakAtMost
<1> DEFINE text == Row(s, Row(x, u))
           edited == Row(s, Row(y, u))
<1>2. /\ Row(x, u) \in Seq(Tokens) /\ Row(y, u) \in Seq(Tokens)
      /\ text \in Seq(Tokens) /\ edited \in Seq(Tokens)
  BY <1>1, RowFacts
<1>3. LineCount(edited) = n + LineCount(y)
  <2>1. /\ LineCount(s) \in Nat /\ LineCount(u) \in Nat /\ LineCount(y) \in Nat
        /\ LineCount(text) = LineCount(s) + (LineCount(x) + LineCount(u))
        /\ LineCount(edited) = LineCount(s) + (LineCount(y) + LineCount(u))
    BY <1>1, <1>2, RowTexts
  <2>2. LineCount(text) = n /\ LineCount(x) = 0
    BY DEF Whole, BreakAtMost
  <2> HIDE DEF text, edited
  <2> QED
    BY <2>1, <2>2
<1>4. Apart(text) => Apart(edited)
  BY <1>1, <1>2, RowTexts
<1>5. CASE text \in Plain
  <2>1. edited \in Plain
    BY <1>1, <1>2, <1>5, RowTexts
  <2> QED
    BY <1>3, <1>4, <2>1 DEF Whole
<1>6. CASE Wrapped(text)
  <2>1. PICK p, q \in Plain : EndsLine(p) /\ text = Around(p, q)
    BY <1>6 DEF Wrapped
  <2>2. /\ p \in Seq(Tokens) /\ q \in Seq(Tokens) /\ Wrapper \in Seq(Tokens)
        /\ Len(Wrapper) = 3
        /\ Len(p) \in Nat /\ Len(s) \in Nat /\ Len(x) \in Nat /\ Len(u) \in Nat
    BY <1>1, WrapperContents DEF Plain
  <2>3. /\ Row(Wrapper, q) \in Seq(Tokens) /\ Row(p, Wrapper) \in Seq(Tokens)
        /\ Len(Row(p, Wrapper)) = Len(p) + 3
        /\ Row(s, x) \in Seq(Tokens) /\ Len(Row(s, x)) = Len(s) + Len(x)
    <3>1. Row(Wrapper, q) \in Seq(Tokens)
      BY <2>2, RowFacts
    <3>2. Row(p, Wrapper) \in Seq(Tokens) /\ Len(Row(p, Wrapper)) = Len(p) + Len(Wrapper)
      BY <2>2, RowFacts, Zenon
    <3>3. Row(s, x) \in Seq(Tokens) /\ Len(Row(s, x)) = Len(s) + Len(x)
      BY <1>1, RowFacts, Zenon
    <3> QED
      BY <2>2, <3>1, <3>2, <3>3, Zenon
  <2>4. ASSUME NEW a, NEW b PROVE Around(a, b) = Row(a, Row(Wrapper, b))
    BY DEF Around, Row
  <2>5. text = Row(p, Row(Wrapper, q))
    BY <2>1, <2>4
  <2>6. Wrapped(edited)
    <3>1. CASE Len(s) + Len(x) <= Len(p)
      <4> DEFINE e == Rest(p, Row(s, x))
      <4>1. Row(Row(s, x), u) = Row(p, Row(Wrapper, q))
        BY <1>1, <2>5, RowsAssociate
      <4>2. /\ e \in Seq(Tokens) /\ p = Row(Row(s, x), e)
            /\ u = Row(e, Row(Wrapper, q))
        BY <2>2, <2>3, <3>1, <4>1, RowsAlign
      <4> HIDE DEF e
      <4>3. Row(s, x) \in Plain /\ e \in Plain
        BY <2>3, <4>2, RowTexts
      <4>4. s \in Plain
        BY <1>1, <4>3, RowTexts
      <4>5. EndsLine(e)
        <5>1. EndsLine(Row(s, x))
          BY <1>1, RowTexts
        <5> QED
          BY <2>1, <2>3, <4>2, <5>1, RowTexts
      <4>6. Row(y, e) \in Plain /\ Row(y, e) \in Seq(Tokens) /\ EndsLine(Row(y, e))
        BY <1>1, <4>2, <4>3, <4>5, RowFacts, RowTexts
      <4>7. Row(s, Row(y, e)) \in Plain /\ EndsLine(Row(s, Row(y, e)))
        BY <4>4, <4>6, RowTexts
      <4>8. edited = Row(Row(s, Row(y, e)), Row(Wrapper, q))
        <5>1. Row(y, u) = Row(Row(y, e), Row(Wrapper, q))
          BY <1>1, <2>3, <4>2, RowsAssociate
        <5> QED
          BY <2>3, <4>6, <5>1, RowsAssociate
      <4> QED
        BY <2>4, <4>7, <4>8 DEF Wrapped
    <3>2. CASE Len(p) + 3 <= Len(s)
      <4> DEFINE e == Rest(s, Row(p, Wrapper))
      <4>1. Row(Row(p, Wrapper), q) = Row(s, Row(x, u))
        BY <2>2, <2>5, RowsAssociate
      <4>2. /\ e \in Seq(Tokens) /\ s = Row(Row(p, Wrapper), e)
            /\ q = Row(e, Row(x, u))
        BY <1>2, <2>2, <2>3, <3>2, <4>1, RowsAlign
      <4> HIDE DEF e
      <4>3. e \in Plain /\ Row(x, u) \in Plain
        BY <1>2, <4>2, RowTexts
      <4>4. Row(y, u) \in Plain
        BY <1>1, <4>3, RowTexts
      <4>5. Row(e, Row(y, u)) \in Plain /\ Row(e, Row(y, u)) \in Seq(Tokens)
        BY <1>2, <4>2, <4>3, <4>4, RowTexts, RowFacts
      <4>6. edited = Row(p, Row(Wrapper, Row(e, Row(y, u))))
        <5>1. edited = Row(Row(p, Wrapper), Row(e, Row(y, u)))
          BY <1>2, <2>3, <4>2, RowsAssociate
        <5> QED
          BY <2>2, <4>5, <5>1, RowsAssociate
      <4> QED
        BY <2>1, <2>4, <4>5, <4>6 DEF Wrapped
    <3>3. CASE ~ (Len(s) + Len(x) <= Len(p)) /\ ~ (Len(p) + 3 <= Len(s))
      <4>1. text[Len(p) + 1] = "begin" /\ text[Len(p) + 2] = "end"
        <5>1. /\ Around(p, q)[Len(p) + 1] = "begin"
              /\ Around(p, q)[Len(p) + 2] = "end"
          BY AroundContents
        <5> QED
          BY <2>1, <5>1, Zenon
      <4>2. CASE Len(s) > Len(p)
        <5>1. Len(s) = Len(p) + 1 \/ Len(s) = Len(p) + 2
          BY <2>2, <3>3, <4>2
        <5>2. s[Len(s)] = "break"
          <6>1. s # <<>>
            BY <2>2, <4>2
          <6> QED
            BY <6>1 DEF EndsLine, At
        <5>3. text[Len(s)] = s[Len(s)]
          <6>1. Len(s) \in 1 .. Len(s)
            BY <2>2, <4>2
          <6> QED
            BY <1>2, <6>1, RowFacts
        <5> QED
          BY <4>1, <5>1, <5>2, <5>3
      <4>3. CASE ~ (Len(s) > Len(p))
        <5>1. Len(x) = 1 /\ x[1] = "break" /\ Len(s) = Len(p)
          <6>1. Len(x) # 0
            BY <2>2, <3>3, <4>3
          <6>2. Len(x) = 1 /\ x[1] = "break"
            BY <6>1, Zenon DEF BreakAtMost
          <6> QED
            BY <2>2, <3>3, <4>3, <6>2
        <5>2. Row(x, u)[1] = x[1] /\ 1 \in 1 .. Len(Row(x, u))
          <6>1. 1 \in 1 .. Len(x)
            BY <5>1
          <6>2. Row(x, u)[1] = x[1] /\ Len(Row(x, u)) = Len(x) + Len(u)
            BY <1>1, <6>1, RowFacts
          <6> QED
            BY <2>2, <5>1, <6>2
        <5>3. text[Len(s) + 1] = Row(x, u)[1]
          BY <1>2, <5>2, RowFacts
        <5> QED
          BY <4>1, <5>1, <5>2, <5>3
      <4> QED
        BY <4>2, <4>3
    <3> QED
      BY <3>1, <3>2, <3>3
  <2> QED
    BY <1>3, <1>4, <2>6 DEF Whole
<1> QED
  BY <1>5, <1>6 DEF Whole

(* No line is run into another by taking away a wrapper that has a blank   *)
(* line above or below it.                                                 *)
LEMMA StripApart ==
    ASSUME NEW p \in Plain, NEW q \in Plain, EndsLine(p),
           Apart(Around(p, q)), ~ Crowded(Around(p, q))
    PROVE  Apart(Trimmed(p) \o q)
<1>1. /\ p \in Seq(Tokens) /\ q \in Seq(Tokens)
      /\ Len(p) \in Nat /\ Len(q) \in Nat
      /\ DOMAIN p = 1 .. Len(p) /\ DOMAIN q = 1 .. Len(q)
  BY DEF Plain
<1>2. Apart(p) /\ Apart(q)
  BY AroundIsWhole
<1>3. CASE p = <<>>
  <2>1. Trimmed(p) = <<>> /\ <<>> \o q = q
    BY <1>1, <1>3, ConcatEmptySeq DEF Trimmed
  <2> QED
    BY <1>2, <2>1
<1>4. CASE p # <<>>
  <2> DEFINE t == Trimmed(p)
             r == t \o q
  <2>1. /\ t \in Seq(Tokens) /\ Len(t) = Len(p) - 1 /\ Len(t) \in Nat
        /\ \A i \in 1 .. Len(t) : t[i] = p[i]
    BY <1>4, TrimmedPlain DEF Plain
  <2> HIDE DEF t
  <2>2. /\ r \in Seq(Tokens) /\ Len(r) = Len(t) + Len(q)
        /\ \A i \in 1 .. Len(t) + Len(q) :
              r[i] = IF i <= Len(t) THEN t[i] ELSE q[i - Len(t)]
    BY <1>1, <2>1, ConcatProperties
  <2> HIDE DEF r
  <2>3. DOMAIN r = 1 .. Len(t) + Len(q)
    BY <2>2
  <2>4. ASSUME NEW i \in Places(r, "user"), i < Len(r)
        PROVE  At(r, i + 1, "break")
    <3>1. /\ i \in 1 .. Len(t) + Len(q) /\ r[i] = "user"
          /\ i + 1 \in 1 .. Len(t) + Len(q)
      BY <1>1, <2>1, <2>2, <2>3, <2>4 DEF Places
    <3>2. CASE i < Len(t)
      <4>1. /\ i \in 1 .. Len(t) /\ i <= Len(t) /\ i \in 1 .. Len(p) /\ i < Len(p)
            /\ i + 1 \in 1 .. Len(t) /\ i + 1 <= Len(t)
        BY <1>1, <2>1, <3>1, <3>2
      <4>2. p[i] = "user"
        BY <2>1, <2>2, <3>1, <4>1
      <4>3. p[i + 1] = "break"
        BY <1>1, <1>2, <4>1, <4>2 DEF Apart, At, Places
      <4> QED
        BY <2>1, <2>2, <2>3, <3>1, <4>1, <4>3 DEF At
    <3>3. CASE i = Len(t)
      <4>1. /\ i \in 1 .. Len(t) /\ i <= Len(t) /\ i \in 1 .. Len(p)
            /\ Len(q) >= 1 /\ ~ (i + 1 <= Len(t)) /\ (i + 1) - Len(t) = 1
            /\ i = (Len(p) + 1) - 2
        BY <1>1, <2>1, <3>1, <3>3
      <4>2. p[i] = "user"
        BY <2>1, <2>2, <3>1, <4>1
      <4> DEFINE w == Around(p, q)
      <4>3. /\ w \in Seq(Tokens) /\ Len(w) = Len(p) + 3 + Len(q)
            /\ \A j \in 1 .. Len(p) : w[j] = p[j]
            /\ \A j \in Len(p) + 4 .. Len(p) + 3 + Len(q) : w[j] = q[j - (Len(p) + 3)]
        BY AroundContents
      <4>4. Len(p) + 1 \in First(w, "begin", 1)
        BY BeginOfAround
      <4>5. ~ Crowded(w)
        OBVIOUS
      <4> HIDE DEF w
      <4>6. DOMAIN w = 1 .. Len(p) + 3 + Len(q)
        BY <4>3
      <4>7. At(w, (Len(p) + 1) - 2, "user")
        <5>1. (Len(p) + 1) - 2 \in DOMAIN w
          BY <1>1, <4>1, <4>6
        <5> QED
          BY <4>1, <4>2, <4>3, <5>1 DEF At
      <4>8. (Len(p) + 1) + 3 \in DOMAIN w /\ w[(Len(p) + 1) + 3] = q[1]
        <5>1. /\ (Len(p) + 1) + 3 \in Len(p) + 4 .. Len(p) + 3 + Len(q)
              /\ ((Len(p) + 1) + 3) - (Len(p) + 3) = 1
              /\ (Len(p) + 1) + 3 \in DOMAIN w
          BY <1>1, <4>1, <4>6
        <5>2. w[(Len(p) + 1) + 3] = q[((Len(p) + 1) + 3) - (Len(p) + 3)]
          BY <4>3, <5>1
        <5> QED
          BY <5>1, <5>2
      <4>9. q[1] = "break"
        BY <4>4, <4>5, <4>7, <4>8 DEF Crowded
      <4>10. r[i + 1] = q[(i + 1) - Len(t)]
        BY <2>2, <3>1, <4>1
      <4> QED
        BY <2>3, <3>1, <4>1, <4>9, <4>10 DEF At
    <3>4. CASE i > Len(t)
      <4>1. /\ ~ (i <= Len(t)) /\ i - Len(t) \in 1 .. Len(q) /\ i - Len(t) < Len(q)
            /\ ~ (i + 1 <= Len(t)) /\ (i + 1) - Len(t) = (i - Len(t)) + 1
        BY <1>1, <2>1, <3>1, <3>4
      <4>2. q[i - Len(t)] = "user"
        BY <2>2, <3>1, <4>1
      <4>3. q[(i - Len(t)) + 1] = "break"
        BY <1>1, <1>2, <4>1, <4>2 DEF Apart, At, Places
      <4>4. r[i + 1] = q[(i + 1) - Len(t)]
        BY <2>2, <3>1, <4>1
      <4> QED
        BY <2>3, <3>1, <4>1, <4>3, <4>4 DEF At
    <3> QED
      BY <2>1, <3>1, <3>2, <3>3, <3>4
  <2> QED
    BY <2>4 DEF Apart, r, t
<1> QED
  BY <1>3, <1>4

(* A whole profile: uninstalling leaves a plain one with its lines,        *)
(* installing a whole one with the same lines, and so does a break at its  *)
(* end; apart from a wrapper without blank lines around it no line is run  *)
(* into another.                                                           *)
LEMMA WholeStaysWhole ==
    ASSUME NEW text \in Seq(Tokens), NEW n, Whole(text, n)
    PROVE  /\ n \in Nat
           /\ StripMarkedBlock(text) \in Plain
           /\ Whole(StripMarkedBlock(text), n)
           /\ Whole(WithWrapper(text), n)
           /\ Whole(WholeLines(text), n) /\ (Apart(text) => Apart(WholeLines(text)))
           /\ Apart(text) /\ ~ Crowded(text)
                 => Apart(StripMarkedBlock(text)) /\ Apart(WithWrapper(text))
<1>1. LineCount(text) = n /\ n \in Nat
  BY JoinCounts DEF Whole
<1>2. /\ StripMarkedBlock(text) \in Plain
      /\ LineCount(StripMarkedBlock(text)) = n
      /\ Whole(WholeLines(text), n) /\ (Apart(text) => Apart(WholeLines(text)))
      /\ Apart(text) /\ ~ Crowded(text) => Apart(StripMarkedBlock(text))
  <2>1. CASE text \in Plain
    <3>1. StripMarkedBlock(text) = text
      BY <2>1, StripPlain
    <3>2. /\ WholeLines(text) \in Plain /\ LineCount(WholeLines(text)) = n
          /\ Apart(text) => Apart(WholeLines(text))
      BY <1>1, <2>1, WholeLinesPlain
    <3> QED
      BY <1>1, <2>1, <3>1, <3>2 DEF Whole
  <2>2. CASE Wrapped(text)
    <3>1. PICK p, q \in Plain : EndsLine(p) /\ text = Around(p, q)
      BY <2>2 DEF Wrapped
    <3>2. StripMarkedBlock(text) = Trimmed(p) \o q
      BY <3>1, StripAround
    <3>3. Trimmed(p) \in Plain /\ LineCount(Trimmed(p)) = LineCount(p)
      BY <3>1, TrimmedPlain
    <3>4. /\ StripMarkedBlock(text) \in Plain
          /\ LineCount(StripMarkedBlock(text)) = LineCount(p) + LineCount(q)
      BY <3>2, <3>3, JoinPlain DEF Plain
    <3>5. LineCount(text) = LineCount(p) + LineCount(q)
      BY <3>1, AroundIsWhole
    <3>6. /\ WholeLines(q) \in Plain /\ LineCount(WholeLines(q)) = LineCount(q)
          /\ Apart(q) => Apart(WholeLines(q))
      BY WholeLinesPlain
    <3>7. WholeLines(text) = Around(p, WholeLines(q))
      BY <3>1, WholeLinesAround
    <3>8. /\ LineCount(WholeLines(text)) = n /\ Wrapped(WholeLines(text))
          /\ Apart(text) => Apart(WholeLines(text))
      <4>1. /\ LineCount(Around(p, WholeLines(q))) =
                  LineCount(p) + LineCount(WholeLines(q))
            /\ Apart(Around(p, WholeLines(q))) <=> Apart(p) /\ Apart(WholeLines(q))
            /\ Apart(text) <=> Apart(p) /\ Apart(q)
        BY <3>1, <3>6, AroundIsWhole
      <4> QED
        BY <1>1, <3>1, <3>5, <3>6, <3>7, <4>1 DEF Wrapped
    <3>9. Apart(text) /\ ~ Crowded(text) => Apart(StripMarkedBlock(text))
      BY <3>1, <3>2, StripApart
    <3> QED
      BY <1>1, <3>4, <3>5, <3>8, <3>9 DEF Whole
  <2> QED
    BY <2>1, <2>2 DEF Whole
<1> DEFINE t == StripMarkedBlock(text)
           p == WholeLines(t) \o <<"break">>
<1>3. /\ WholeLines(t) \in Plain /\ EndsLine(WholeLines(t))
      /\ LineCount(WholeLines(t)) = n
      /\ Apart(t) => Apart(WholeLines(t))
  BY <1>2, WholeLinesPlain
<1>4. /\ p \in Plain /\ EndsLine(p) /\ LineCount(p) = n
      /\ Apart(t) => Apart(p)
  BY <1>3, BlankAfter
<1>5. WithWrapper(text) = Around(p, <<>>)
  BY <1>2, WrapperIsLast
<1> HIDE DEF p
<1>6. /\ Wrapped(Around(p, <<>>))
      /\ LineCount(Around(p, <<>>)) = LineCount(p) + LineCount(<<>>)
      /\ Apart(p) => Apart(Around(p, <<>>))
  BY <1>4, PlainTexts, AroundIsWhole DEF Wrapped
<1>7. LineCount(p) + LineCount(<<>>) = n
  BY <1>1, <1>4, PlainTexts
<1> QED
  BY <1>1, <1>2, <1>4, <1>5, <1>6, <1>7 DEF Whole

(* Lines that are put in, and blank lines that are taken away, where a     *)
(* line begins leave a whole text, and run no line into another.           *)
LEMMA EditsStayWhole ==
    ASSUME NEW text \in Seq(Tokens), NEW n, Whole(text, n), n \in Nat,
           NEW i \in LineStarts(text)
    PROVE  /\ Whole(Inserted(text, i, <<"user", "break">>), n + 1)
           /\ Whole(Inserted(text, i, <<"break">>), n)
           /\ At(text, i, "break") => Whole(Without(text, i, i), n)
           /\ Apart(text) =>
                 /\ Apart(Inserted(text, i, <<"user", "break">>))
                 /\ Apart(Inserted(text, i, <<"break">>))
                 /\ At(text, i, "break") => Apart(Without(text, i, i))
<1> DEFINE s == SubSeq(text, 1, i - 1)
           u == SubSeq(text, i, Len(text))
           v == SubSeq(text, i + 1, Len(text))
<1>1. /\ s \in Seq(Tokens) /\ u \in Seq(Tokens) /\ v \in Seq(Tokens)
      /\ EndsLine(s) /\ text = Row(s, u)
      /\ At(text, i, "break") => u = Row(<<"break">>, v)
  BY LineStart, Zenon DEF Row
<1>2. /\ \A y : Inserted(text, i, y) = Row(s, Row(y, u))
      /\ Without(text, i, i) = Row(s, v)
  BY Zenon DEF Inserted, Without, Row
<1> HIDE DEF s, u, v
<1>3. BreakAtMost(<<>>) /\ BreakAtMost(<<"break">>)
  <2>1. Len(<<>>) = 0 /\ Len(<<"break">>) = 1 /\ <<"break">>[1] = "break"
    OBVIOUS
  <2> QED
    BY <2>1, PlainTexts, Zenon DEF BreakAtMost
<1>4. \A t \in Seq(Tokens) : Row(<<>>, t) = t
  BY ConcatEmptySeq, Zenon DEF Row
<1>5. n + 0 = n
  OBVIOUS
<1>6. ASSUME NEW y \in Plain, EndsLine(y), Apart(y)
      PROVE  /\ Whole(Inserted(text, i, y), n + LineCount(y))
             /\ Apart(text) => Apart(Inserted(text, i, y))
  <2>1. text = Row(s, Row(<<>>, u))
    BY <1>1, <1>4, Zenon
  <2>2. Whole(Row(s, Row(<<>>, u)), n)
    BY <2>1, Zenon
  <2>3. /\ Whole(Row(s, Row(y, u)), n + LineCount(y))
        /\ Apart(Row(s, Row(<<>>, u))) => Apart(Row(s, Row(y, u)))
    BY <1>1, <1>3, <1>6, <2>2, EditedText, Zenon
  <2> QED
    BY <1>2, <2>1, <2>3, Zenon
<1>7. ASSUME At(text, i, "break")
      PROVE  /\ Whole(Without(text, i, i), n)
             /\ Apart(text) => Apart(Without(text, i, i))
  <2>1. text = Row(s, Row(<<"break">>, v))
    BY <1>1, <1>7, Zenon
  <2>2. Whole(Row(s, Row(<<"break">>, v)), n)
    BY <2>1, Zenon
  <2>3. <<>> \in Plain /\ EndsLine(<<>>) /\ Apart(<<>>) /\ LineCount(<<>>) = 0
    BY PlainTexts
  <2>4. /\ Whole(Row(s, Row(<<>>, v)), n + LineCount(<<>>))
        /\ Apart(Row(s, Row(<<"break">>, v))) => Apart(Row(s, Row(<<>>, v)))
    BY <1>1, <1>3, <2>2, <2>3, EditedText, Zenon
  <2>5. Row(s, Row(<<>>, v)) = Without(text, i, i)
    BY <1>1, <1>2, <1>4, Zenon
  <2> QED
    BY <1>5, <2>1, <2>3, <2>4, <2>5, Zenon
<1>8. /\ <<"user", "break">> \in Plain /\ EndsLine(<<"user", "break">>)
      /\ Apart(<<"user", "break">>) /\ LineCount(<<"user", "break">>) = 1
      /\ <<"break">> \in Plain /\ EndsLine(<<"break">>) /\ Apart(<<"break">>)
      /\ LineCount(<<"break">>) = 0
  BY PlainTexts, Zenon
<1>9. /\ Whole(Inserted(text, i, <<"user", "break">>), n + LineCount(<<"user", "break">>))
      /\ Apart(text) => Apart(Inserted(text, i, <<"user", "break">>))
      /\ Whole(Inserted(text, i, <<"break">>), n + LineCount(<<"break">>))
      /\ Apart(text) => Apart(Inserted(text, i, <<"break">>))
  BY <1>6, <1>8, Zenon
<1> QED
  BY <1>5, <1>7, <1>8, <1>9, Zenon

(* Installing into a whole profile a second time changes nothing, and      *)
(* uninstalling after it leaves what was there, its last line completed.   *)
LEMMA InstallingTwice ==
    ASSUME NEW text \in Seq(Tokens), NEW n, Whole(text, n)
    PROVE  /\ WithWrapper(WithWrapper(text)) = WithWrapper(text)
           /\ StripMarkedBlock(WithWrapper(text)) =
                 WholeLines(StripMarkedBlock(text))
<1> DEFINE p == WholeLines(StripMarkedBlock(text))
           blank == p \o <<"break">>
           once == WithWrapper(text)
<1>1. StripMarkedBlock(text) \in Plain
  BY WholeStaysWhole
<1>2. p \in Plain /\ EndsLine(p) /\ WholeLines(p) = p
  BY <1>1, WholeLinesPlain
<1>3. once = Around(blank, <<>>)
  BY <1>1, WrapperIsLast
<1> HIDE DEF p
<1>4. blank \in Plain /\ EndsLine(blank) /\ Trimmed(blank) = p
  BY <1>2, BlankAfter
<1> HIDE DEF blank
<1>5. StripMarkedBlock(once) = p
  <2>1. StripMarkedBlock(once) = Trimmed(blank) \o <<>>
    BY <1>3, <1>4, StripAround, PlainTexts
  <2>2. p \in Seq(Tokens)
    BY <1>2 DEF Plain
  <2> QED
    BY <1>4, <2>1, <2>2, ConcatEmptySeq
<1>6. once \in Seq(Tokens)
  BY TextTypes
<1> HIDE DEF once
<1>7. WithWrapper(once) = Around(WholeLines(StripMarkedBlock(once)) \o <<"break">>, <<>>)
  BY <1>2, <1>5, <1>6, WrapperIsLast
<1>8. WithWrapper(once) = once
  BY <1>2, <1>3, <1>5, <1>7, Zenon DEF blank
<1> QED
  BY <1>5, <1>8 DEF once, p

(* The profile is whole to begin with. *)
LEMMA InitProfileInv == Init => ProfileInv
<1> SUFFICES ASSUME Init PROVE ProfileInv
  OBVIOUS
<1>1. command.at = "prompt"
  BY Zenon DEF Init, AtPrompt
<1>2. mine.lines = IF profile = <<>> THEN 0 ELSE 1
  <2>1. mine = [hook |-> HasCommand(settings.groups, "user"),
                env |-> settings.env,
                lines |-> IF profile = <<>> THEN 0 ELSE 1]
    BY Zenon DEF Init
  <2> QED
    BY <2>1
<1>3. profile = <<>> \/ profile = <<"user">> \/ profile = <<"user", "break">>
  BY Zenon DEF Init
<1>4. <<"user">> # <<>> /\ <<"user", "break">> # <<>>
  <2>1. ASSUME NEW a, NEW b PROVE <<a>> # <<>> /\ <<a, b>> # <<>>
    OBVIOUS
  <2> QED
    BY <2>1, Zenon
<1>5. Kept(profile)
  <2>1. CASE profile = <<>>
    BY <1>2, <2>1, PlainTexts, Zenon DEF Whole, Kept
  <2>2. CASE profile = <<"user">>
    BY <1>2, <1>4, <2>2, PlainTexts, Zenon DEF Whole, Kept
  <2>3. CASE profile = <<"user", "break">>
    BY <1>2, <1>4, <2>3, PlainTexts, Zenon DEF Whole, Kept
  <2> QED
    BY <1>3, <2>1, <2>2, <2>3
<1> QED
  BY <1>1, <1>5 DEF ProfileInv

(* What Kept says, of a given count of lines and of a given `crowded'.     *)
KeptFor(text, lines, run) == Whole(text, lines) /\ (~ run => Apart(text))

(* Every step keeps the profile whole. *)
LEMMA NextProfileInv ==
    ASSUME TypeOK, CommandHasEdits, ProfileInv, [Next]_vars
    PROVE  ProfileInv'
<1> DEFINE KeptThen(text) == KeptFor(text, mine'.lines, crowded')
           Goal == /\ command'.at # "write" => KeptThen(profile')
                   /\ command'.at \in {"truncate", "write"} => KeptThen(command'.text)
<1> SUFFICES ASSUME ~ overtaken', ~ torn' PROVE Goal
  BY DEF ProfileInv, Kept, KeptFor, Whole, Wrapped, Apart, At, EndsLine
<1>1. /\ profile \in Seq(Tokens) /\ command \in Command
      /\ mine.lines \in Nat /\ crowded \in BOOLEAN
  <2>1. MaxEdits \in Nat
    BY SetupAssumption
  <2> QED
    BY <2>1 DEF TypeOK
<1>2. ASSUME UNCHANGED <<overtaken, torn, profile>>, mine'.lines = mine.lines,
             command.at # "write", command'.at \in {"prompt", "load", "save"},
             crowded => crowded'
      PROVE  Goal
  BY <1>2 DEF ProfileInv, Kept, KeptFor
<1>3. ASSUME UNCHANGED <<overtaken, torn, profile, command, crowded>>,
             mine'.lines = mine.lines
      PROVE  Goal
  BY <1>3 DEF ProfileInv, Kept, KeptFor
<1>4. ASSUME Succeed \/ Fail, command.at # "prompt"
      PROVE  command'.at \in {"prompt", "load"}
  <2>1. command.todo # <<>>
    BY <1>4 DEF CommandHasEdits
  <2> QED
    BY <1>1, <1>4, <2>1, EditEnds
<1>5. CASE EditSettings
  <2>1. mine'.lines = mine.lines
    BY <1>5 DEF EditSettings, TypeOK
  <2>2. ~ overtaken /\ UNCHANGED <<profile, command, torn, crowded>>
    BY <1>5 DEF EditSettings
  <2> QED
    BY <2>1, <2>2 DEF ProfileInv, Kept, KeptFor
<1>6. CASE EditProfile
  <2> DEFINE text == WholeLines(profile)
  <2>1. /\ ~ overtaken /\ ~ torn /\ command.at \notin {"truncate", "write"}
        /\ command' = command /\ crowded' = crowded
    BY <1>6 DEF EditProfile, Between
  <2>2. Whole(profile, mine.lines) /\ (~ crowded => Apart(profile))
    BY <2>1 DEF ProfileInv, Kept
  <2>3. Whole(text, mine.lines) /\ (~ crowded => Apart(text))
    BY <1>1, <2>2, WholeStaysWhole
  <2>4. text \in Seq(Tokens)
    BY <1>1, TextTypes
  <2>5. PICK i \in LineStarts(text) :
           \/ /\ profile' = Inserted(text, i, <<"user", "break">>)
              /\ mine' = [mine EXCEPT !.lines = @ + 1]
           \/ /\ profile' = Inserted(text, i, <<"break">>)
              /\ UNCHANGED mine
           \/ /\ At(text, i, "break")
              /\ profile' = Without(text, i, i)
              /\ UNCHANGED mine
    BY <1>6, Zenon DEF EditProfile
  <2> HIDE DEF text
  <2>6. /\ Whole(Inserted(text, i, <<"user", "break">>), mine.lines + 1)
        /\ Whole(Inserted(text, i, <<"break">>), mine.lines)
        /\ At(text, i, "break") => Whole(Without(text, i, i), mine.lines)
        /\ Apart(text) =>
              /\ Apart(Inserted(text, i, <<"user", "break">>))
              /\ Apart(Inserted(text, i, <<"break">>))
              /\ At(text, i, "break") => Apart(Without(text, i, i))
    BY <1>1, <2>3, <2>4, EditsStayWhole
  <2>7. mine' = [mine EXCEPT !.lines = @ + 1] => mine'.lines = mine.lines + 1
    BY DEF TypeOK
  <2>8. KeptThen(profile')
    BY <2>1, <2>3, <2>5, <2>6, <2>7, Zenon DEF KeptFor
  <2> QED
    BY <2>1, <2>8
<1>7. ASSUME NEW todo \in Commands, Run(todo) PROVE Goal
  <2>1. command'.at \in {"prompt", "load"}
    BY <1>7 DEF Run, Then, AtPrompt
  <2> QED
    BY <1>2, <1>7, <2>1 DEF Run, user
<1>8. CASE LoadSettings
  <2>1. command'.at \in {"prompt", "load", "save"}
    BY <1>1, <1>4, <1>8 DEF LoadSettings, Command
  <2> QED
    BY <1>2, <1>8, <2>1 DEF LoadSettings, user
<1>9. CASE SaveSettings
  <2>1. command'.at \in {"prompt", "load"}
    BY <1>4, <1>9 DEF SaveSettings
  <2> QED
    BY <1>2, <1>9, <2>1 DEF SaveSettings, user
<1>10. CASE LoadProfile
  <2> DEFINE text == IF Edit = "add wrapper" THEN WithWrapper(profile)
                     ELSE StripMarkedBlock(profile)
  <2>1. crowded' = (crowded \/ Crowded(profile))
    BY <1>10, Zenon DEF LoadProfile
  <2>2. CASE Succeed
    <3>1. command'.at \in {"prompt", "load"}
      BY <1>4, <1>10, <2>2 DEF LoadProfile
    <3>2. /\ UNCHANGED <<overtaken, torn, profile>> /\ mine'.lines = mine.lines
          /\ command.at # "write"
      BY <1>10 DEF LoadProfile, user
    <3>3. crowded => crowded'
      BY <2>1
    <3> QED
      BY <1>2, <3>1, <3>2, <3>3
  <2>3. CASE command' = [command EXCEPT !.at = "truncate", !.text = text]
    <3>1. /\ ~ overtaken /\ ~ torn /\ command.at = "load"
          /\ profile' = profile /\ mine' = mine
      BY <1>10 DEF LoadProfile, user
    <3>2. Whole(profile, mine.lines) /\ (~ crowded => Apart(profile))
      BY <3>1 DEF ProfileInv, Kept
    <3>3. Whole(text, mine.lines) /\ (~ crowded' => Apart(text))
      <4>1. /\ Whole(StripMarkedBlock(profile), mine.lines)
            /\ Whole(WithWrapper(profile), mine.lines)
            /\ Apart(profile) /\ ~ Crowded(profile)
                  => /\ Apart(StripMarkedBlock(profile))
                     /\ Apart(WithWrapper(profile))
        BY <1>1, <3>2, WholeStaysWhole
      <4>2. ~ crowded' => ~ crowded /\ ~ Crowded(profile)
        BY <2>1, Zenon
      <4> QED
        BY <3>2, <4>1, <4>2, Zenon
    <3>4. ~ crowded' => ~ crowded
      BY <2>1, Zenon
    <3> HIDE DEF text
    <3>5. command'.text = text
      BY <1>1, <2>3 DEF Command
    <3> QED
      BY <3>1, <3>2, <3>3, <3>4, <3>5, Zenon DEF KeptFor
  <2> QED
    BY <1>10, <2>2, <2>3 DEF LoadProfile
<1>11. CASE TruncateProfile
  <2>1. /\ ~ overtaken /\ ~ torn /\ command.at = "truncate" /\ mine' = mine
        /\ command'.at = "write" /\ command'.text = command.text
        /\ crowded' = crowded
    BY <1>1, <1>11 DEF TruncateProfile, user, Command
  <2> QED
    BY <2>1 DEF ProfileInv, Kept, KeptFor
<1>12. CASE WriteProfile
  <2>1. /\ ~ overtaken /\ ~ torn /\ command.at = "write" /\ mine' = mine
        /\ profile' = command.text /\ Succeed /\ crowded' = crowded
    BY <1>12 DEF WriteProfile, user
  <2>2. command'.at \in {"prompt", "load"}
    BY <1>4, <2>1
  <2> QED
    BY <2>1, <2>2 DEF ProfileInv, Kept, KeptFor
<1>13. CASE Cut
  <2>1. /\ command.at # "write" /\ command.at # "prompt"
        /\ UNCHANGED <<overtaken, torn, profile, mine, crowded>>
    BY <1>13 DEF Cut, user
  <2>2. command'.at \in {"prompt", "load"}
    BY <1>4, <1>13, <2>1 DEF Cut, AtPrompt
  <2> QED
    BY <1>2, <2>1, <2>2
<1>14. CASE UNCHANGED vars
  BY <1>3, <1>14 DEF vars, user
<1> QED
  BY <1>5, <1>6, <1>7, <1>8, <1>9, <1>10, <1>11, <1>12, <1>13, <1>14 DEF Next

(* What a whole profile is worth to the user. *)
LEMMA WholeProfile ==
    ASSUME profile \in Seq(Tokens), Whole(profile, mine.lines)
    PROVE  /\ Cardinality(Places(profile, "user")) = mine.lines
           /\ Cardinality(Places(profile, "begin")) <= 1
<1>0. Cardinality(Places(profile, "user")) = mine.lines
  BY Zenon DEF Whole, LineCount
<1>1. CASE profile \in Plain
  <2>1. Places(profile, "begin") = {}
    BY <1>1 DEF Plain
  <2>2. Cardinality(Places(profile, "begin")) = 0
    BY <2>1, FS_EmptySet, Zenon
  <2> QED
    BY <1>0, <2>1, <2>2
<1>2. CASE Wrapped(profile)
  <2>1. PICK p, q \in Plain : EndsLine(p) /\ profile = Around(p, q)
    BY <1>2 DEF Wrapped
  <2>2. Places(profile, "begin") = {Len(p) + 1}
    BY <2>1, AroundIsWhole
  <2>3. Cardinality(Places(profile, "begin")) = 1
    BY <2>2, FS_Singleton, Zenon
  <2> QED
    BY <1>0, <2>2, <2>3
<1> QED
  BY <1>1, <1>2 DEF Whole

(* The profile is whole at every moment at which it is not being written,  *)
(* and what a command is about to write is, unless an edit was overtaken   *)
(* or a write was cut.                                                     *)
LEMMA ProfileAlwaysWhole == Spec => [](TypeOK /\ ProfileInv)
<1>1. Spec => [](TypeOK /\ LinesAreCounted /\ CommandHasEdits)
  BY InitSetupType, NextSetupType, PTL DEF Spec
<1>2. TypeOK /\ CommandHasEdits /\ ProfileInv /\ [Next]_vars => ProfileInv'
  BY NextProfileInv
<1> QED
  BY <1>1, <1>2, InitProfileInv, PTL DEF Spec

(* However often the wrapper is installed and uninstalled, and wherever    *)
(* outside it lines are added and blank ones taken away in between, every  *)
(* line of the user's is there and there is one wrapper at most; and no    *)
(* line is run into the next unless the wrapper was taken from between two *)
(* lines with no blank one on either side.                                 *)
THEOREM ProfileIsKept == Spec => []ProfileStaysWhole
<1>1. TypeOK /\ ProfileInv => ProfileStaysWhole
  <2> SUFFICES ASSUME TypeOK, ProfileInv, ~ overtaken, ~ torn, command.at # "write"
               PROVE  /\ Cardinality(Places(profile, "user")) = mine.lines
                      /\ ~ crowded => Apart(profile)
                      /\ Cardinality(Places(profile, "begin")) <= 1
    BY DEF ProfileStaysWhole, Places, Apart
  <2> QED
    BY WholeProfile DEF TypeOK, ProfileInv, Kept
<1> QED
  BY <1>1, ProfileAlwaysWhole, PTL

(* setup is idempotent, and uninstalling after it gives back the profile   *)
(* without a wrapper, its last line completed, whatever was done before.   *)
THEOREM SetupTwiceIsSetupOnce == Spec => []SetupIsIdempotent
<1>1. TypeOK /\ ProfileInv => SetupIsIdempotent
  BY InstallingTwice DEF TypeOK, ProfileInv, SetupIsIdempotent, Kept
<1> QED
  BY <1>1, ProfileAlwaysWhole, PTL
=============================================================================
