----------------------------- MODULE AgentSetup -----------------------------
(***************************************************************************)
(* `biewer setup`, `biewer hooks` and `biewer telemetry`: how they edit    *)
(* the files of the agents' user.  Each edit loads Claude Code's           *)
(* settings.json, or the shell profile, changes what it loaded and writes  *)
(* the whole file back; the user and Claude Code write the same files, at  *)
(* any time and with no lock.  settings.json is replaced by a rename, the  *)
(* profile is truncated and written in place.                              *)
(*                                                                         *)
(* Biewer's four hooks are edited alike, and one stands for them, as two   *)
(* variables do for the 15 of claudeTelemetryEnv; all other settings are   *)
(* left out, and so are values of the wrong shape under "hooks", an event *)
(* or "env", which the commands replace as if they were missing.  The      *)
(* order of matcher groups is not modelled.  The profile is a sequence of  *)
(* tokens: a line of the user, the first line and the rest of the wrapper, *)
(* and line breaks.  Starting the daemon, the first step of setup, is the  *)
(* module DaemonLifecycle.                                                 *)
(***************************************************************************)
EXTENDS Naturals, Sequences, FiniteSets

CONSTANTS Keys,           \* variables of claudeTelemetryEnv
          MaxCommands,    \* bound: commands run
          MaxEdits,       \* bound: edits by the user or Claude Code
          MaxInterrupts   \* bound: commands that are cut

ASSUME SetupAssumption == {MaxCommands, MaxEdits, MaxInterrupts} \subseteq Nat

VARIABLES
    settings,    \* settings.json
    profile,     \* the shell's rc file
    command,     \* the command in progress
    mine,        \* what the user wants in the two files
    overtaken,   \* a file was edited between a load and the write after it
    torn,        \* a command was cut while it wrote the profile
    crowded,     \* a wrapper was taken from between two lines with no blank
                 \* one between them
    commands, edits, interrupts   \* how many so far

user == <<mine, edits>>
vars == <<settings, profile, command, mine, overtaken, torn, crowded, commands,
          edits, interrupts>>

-----------------------------------------------------------------------------
(* settings.json *)

(* A hook command: Biewer's, one that an older version of it installed, or *)
(* the user's.  Of a matcher group only the commands count.                *)
Ours == {"biewer", "biewer of old"}
HookCommands == Ours \cup {"user"}
Values == {"unset", "biewer", "user"}

(* A file that is missing or blank reads as one without settings. *)
Settings == [wellFormed : BOOLEAN, groups : SUBSET ((SUBSET HookCommands) \ {{}}),
             env : [Keys -> Values]]
Blank == [wellFormed |-> TRUE, groups |-> {}, env |-> [k \in Keys |-> "unset"]]

HasCommand(groups, c) == \E g \in groups : c \in g

AddCommandHook(groups) ==
    IF HasCommand(groups, "biewer") THEN groups ELSE groups \cup {{"biewer"}}

(* Fault: groups that became empty stay. *)
RemoveHooksOnly(groups) == {g \ Ours : g \in groups}

(* Fault: a group that holds a hook of Biewer's is dropped as a whole. *)
RemoveHookGroups(groups) == {g \in groups : g \cap Ours = {}}

RemoveCommandHook(groups) == {g \ Ours : g \in groups} \ {{}}

Conflicts(env) == {k \in Keys : env[k] = "user"}

-----------------------------------------------------------------------------
(* The profile *)

Tokens == {"user", "begin", "end", "break"}
Wrapper == <<"begin", "end", "break">>

At(text, i, token) == i \in DOMAIN text /\ text[i] = token
First(text, token, from) ==
    {i \in from .. Len(text) : /\ text[i] = token
                               /\ \A j \in from .. i - 1 : text[j] # token}

Without(text, b, e) == SubSeq(text, 1, b - 1) \o SubSeq(text, e + 1, Len(text))

(* Fault: the line break before the block is left. *)
StripBlockOnly(text) ==
    IF \E b \in First(text, "begin", 1) : First(text, "end", b) # {}
    THEN LET b == CHOOSE i \in First(text, "begin", 1) : TRUE
             e == CHOOSE i \in First(text, "end", b) : TRUE
         IN  Without(text, b, IF At(text, e + 1, "break") THEN e + 1 ELSE e)
    ELSE text

(* The first block, with the line break after and the one before it; a     *)
(* block without an end is left as it is.                                  *)
StripMarkedBlock(text) ==
    IF \E b \in First(text, "begin", 1) : First(text, "end", b) # {}
    THEN LET b == CHOOSE i \in First(text, "begin", 1) : TRUE
             e == CHOOSE i \in First(text, "end", b) : TRUE
         IN  Without(text, IF At(text, b - 1, "break") THEN b - 1 ELSE b,
                           IF At(text, e + 1, "break") THEN e + 1 ELSE e)
    ELSE text

EndsLine(text) == text = <<>> \/ At(text, Len(text), "break")
WholeLines(text) == IF EndsLine(text) THEN text ELSE Append(text, "break")

(* Where lines begin.  None does in the wrapper, which is left alone.      *)
LineStarts(text) == {i \in 1 .. Len(text) + 1 : i = 1 \/ At(text, i - 1, "break")}
Inserted(text, i, line) ==
    SubSeq(text, 1, i - 1) \o (line \o SubSeq(text, i, Len(text)))

(* The first block has a line of the user's directly above it, and one     *)
(* that is not blank directly below.                                       *)
Crowded(text) ==
    \E b \in First(text, "begin", 1) :
        /\ At(text, b - 2, "user")
        /\ b + 3 \in DOMAIN text /\ text[b + 3] # "break"

(* Fault: an earlier wrapper is left in the file. *)
WrapperAppended(text) == WholeLines(text) \o <<"break">> \o Wrapper

WithWrapper(text) ==
    WholeLines(StripMarkedBlock(text)) \o <<"break">> \o Wrapper

-----------------------------------------------------------------------------
(* The commands, as the edits they are made of *)
Edits == {"add hooks", "add wrapper", "add env", "drop hooks", "drop wrapper",
          "drop env"}
Commands == {<<"add hooks", "add wrapper", "add env">>,
             <<"add hooks", "add wrapper">>, <<"add env">>,
             <<"drop hooks", "drop wrapper">>, <<"drop env">>}
OfProfile == {"add wrapper", "drop wrapper"}

(* at: "load", "save" (settings.json), "truncate" and "write" (profile). *)
Command == [at : {"prompt", "load", "save", "truncate", "write"},
            todo : Seq(Edits), root : Settings, text : Seq(Tokens)]
AtPrompt == [at |-> "prompt", todo |-> <<>>, root |-> Blank, text |-> <<>>]

Then(todo) == IF todo = <<>> THEN AtPrompt
              ELSE [AtPrompt EXCEPT !.at = "load", !.todo = todo]

Edit == Head(command.todo)

Init ==
    /\ \E groups \in {{}, {{"biewer of old"}}, {{"user", "biewer of old"}}} :
          settings = [Blank EXCEPT !.groups = groups]
    /\ profile \in {<<>>, <<"user">>, <<"user", "break">>}
    /\ command = AtPrompt
    /\ mine = [hook |-> HasCommand(settings.groups, "user"),
               env |-> settings.env,
               lines |-> IF profile = <<>> THEN 0 ELSE 1]
    /\ overtaken = FALSE
    /\ torn = FALSE
    /\ crowded = FALSE
    /\ commands = 0 /\ edits = 0 /\ interrupts = 0

-----------------------------------------------------------------------------
(* The user and Claude Code *)

(* While this holds, a write of theirs to the file would be overwritten. *)
Between(steps) == command.at \in steps

EditSettings ==
    /\ edits < MaxEdits
    /\ edits' = edits + 1
    /\ \/ /\ settings' = [settings EXCEPT !.wellFormed = ~ @]
          /\ UNCHANGED mine
       \/ /\ settings.wellFormed
          /\ \E g \in settings.groups \cup {{}} :
                settings' = [settings EXCEPT !.groups = (@ \ {g}) \cup {g \cup {"user"}}]
          /\ mine' = [mine EXCEPT !.hook = TRUE]
       \/ /\ settings.wellFormed
          /\ \E k \in Keys, v \in Values :
                /\ settings' = [settings EXCEPT !.env[k] = v]
                /\ mine' = [mine EXCEPT !.env[k] = v]
    /\ overtaken' = (overtaken \/ Between({"save"}))
    /\ UNCHANGED <<profile, command, torn, crowded, commands, interrupts>>

(* A line or a blank line is put anywhere outside the wrapper, or a blank  *)
(* line taken away; a last line without a break gets one.                  *)
EditProfile ==
    /\ edits < MaxEdits
    /\ edits' = edits + 1
    /\ LET text == WholeLines(profile)
       IN  \E i \in LineStarts(text) :
              \/ /\ profile' = Inserted(text, i, <<"user", "break">>)
                 /\ mine' = [mine EXCEPT !.lines = @ + 1]
              \/ /\ profile' = Inserted(text, i, <<"break">>)
                 /\ UNCHANGED mine
              \/ /\ At(text, i, "break")
                 /\ profile' = Without(text, i, i)
                 /\ UNCHANGED mine
    /\ overtaken' = (overtaken \/ Between({"truncate", "write"}))
    /\ UNCHANGED <<settings, command, torn, crowded, commands, interrupts>>

-----------------------------------------------------------------------------
(* The edits *)

Run(todo) ==
    /\ command.at = "prompt"
    /\ commands < MaxCommands
    /\ commands' = commands + 1
    /\ command' = Then(todo)
    /\ UNCHANGED <<settings, profile, user, overtaken, torn, crowded, interrupts>>

(* An edit that failed ends the hooks command it belongs to; setup goes on *)
(* with the telemetry settings.                                            *)
Fail ==
    command' = Then(IF "add env" \in {command.todo[i] : i \in 2 .. Len(command.todo)}
                    THEN <<"add env">> ELSE <<>>)
Succeed == command' = Then(Tail(command.todo))

(* What installClaudeHooks, uninstallClaudeHooks, installClaudeTelemetryAt *)
(* and uninstallClaudeTelemetryAt make of the settings they loaded.        *)
Changed(edit, s) ==
    CASE edit = "add hooks"  -> [s EXCEPT !.groups = AddCommandHook(@)]
      [] edit = "drop hooks" -> [s EXCEPT !.groups = RemoveCommandHook(@)]
      [] edit = "add env"    -> [s EXCEPT !.env = [k \in Keys |-> "biewer"]]
      [] edit = "drop env"   -> [s EXCEPT !.env =
                                   [k \in Keys |-> IF @[k] = "biewer" THEN "unset"
                                                   ELSE @[k]]]

(* A file that does not parse, and a variable that has another value, are  *)
(* reported and left alone.                                                *)
LoadSettings ==
    /\ command.at = "load" /\ Edit \notin OfProfile
    /\ IF ~ settings.wellFormed \/ (Edit = "add env" /\ Conflicts(settings.env) # {})
       THEN Fail
       ELSE command' = [command EXCEPT !.at = "save", !.root = Changed(Edit, settings)]
    /\ UNCHANGED <<settings, profile, user, overtaken, torn, crowded, commands,
                   interrupts>>

(* The new file is complete before it is renamed over the old one. *)
SaveSettings ==
    /\ command.at = "save"
    /\ settings' = command.root
    /\ Succeed
    /\ UNCHANGED <<profile, user, overtaken, torn, crowded, commands, interrupts>>

(* Uninstalling what is not there writes nothing. *)
LoadProfile ==
    /\ command.at = "load" /\ Edit \in OfProfile
    /\ LET text == IF Edit = "add wrapper" THEN WithWrapper(profile)
                   ELSE StripMarkedBlock(profile)
       IN  IF Edit = "drop wrapper" /\ text = profile THEN Succeed
           ELSE command' = [command EXCEPT !.at = "truncate", !.text = text]
    /\ crowded' = (crowded \/ Crowded(profile))
    /\ UNCHANGED <<settings, profile, user, overtaken, torn, commands, interrupts>>

TruncateProfile ==
    /\ command.at = "truncate"
    /\ profile' = <<>>
    /\ command' = [command EXCEPT !.at = "write"]
    /\ UNCHANGED <<settings, user, overtaken, torn, crowded, commands, interrupts>>

WriteProfile ==
    /\ command.at = "write"
    /\ profile' = command.text
    /\ Succeed
    /\ UNCHANGED <<settings, user, overtaken, torn, crowded, commands, interrupts>>

(* The command is killed, or a write fails: settings.json stays as it was, *)
(* the profile may keep a part of what was to be written.                  *)
Cut ==
    /\ command.at # "prompt"
    /\ interrupts < MaxInterrupts
    /\ interrupts' = interrupts + 1
    /\ \/ command' = AtPrompt
       \/ command.at \in {"save", "write"} /\ Fail
    /\ IF command.at = "write"
       THEN /\ torn' = TRUE
            /\ \E n \in 0 .. Len(command.text) :
                  profile' = SubSeq(command.text, 1, n)
       ELSE UNCHANGED <<torn, profile>>
    /\ UNCHANGED <<settings, user, overtaken, crowded, commands>>

-----------------------------------------------------------------------------
Next ==
    \/ EditSettings \/ EditProfile
    \/ \E todo \in Commands : Run(todo)
    \/ LoadSettings \/ SaveSettings
    \/ LoadProfile \/ TruncateProfile \/ WriteProfile
    \/ Cut

Spec == Init /\ [][Next]_vars

-----------------------------------------------------------------------------
(* What must be true of it *)

(* Every variable holds a value of its kind. *)
TypeOK ==
    /\ settings \in Settings
    /\ profile \in Seq(Tokens)
    /\ command \in Command
    /\ mine \in [hook : BOOLEAN, env : [Keys -> Values], lines : 0 .. MaxEdits + 1]
    /\ overtaken \in BOOLEAN
    /\ torn \in BOOLEAN
    /\ crowded \in BOOLEAN
    /\ commands \in 0 .. MaxCommands
    /\ edits \in 0 .. MaxEdits
    /\ interrupts \in 0 .. MaxInterrupts

(* What the user has in settings.json is still there after any sequence of *)
(* installs, uninstalls, refused and killed commands, in a group of the    *)
(* user's or in one of Biewer's; only an edit made between a load and the  *)
(* rename after it is lost.  A variable that has the very value Biewer     *)
(* needs is not told apart from one it installed, and uninstall removes it.*)
UserSettingsSurvive ==
    ~ overtaken =>
        /\ mine.hook => HasCommand(settings.groups, "user")
        /\ \A k \in Keys : mine.env[k] = "user" => settings.env[k] = "user"

(* The profile, whenever it is not being written, has every line of the    *)
(* user's and one wrapper at most, as long as no edit came between a load  *)
(* and its write and no write was cut; and no line is run into the next,   *)
(* unless the wrapper stood between the two with no blank line on either   *)
(* side: stripMarkedBlock takes the break above it for its own.            *)
ProfileStaysWhole ==
    ~ overtaken /\ ~ torn /\ command.at # "write" =>
        LET places(token) == {i \in DOMAIN profile : profile[i] = token}
        IN  /\ Cardinality(places("user")) = mine.lines
            /\ ~ crowded => \A i \in places("user") :
                              i < Len(profile) => At(profile, i + 1, "break")
            /\ Cardinality(places("begin")) <= 1

(* setup is idempotent (README.md:43): installing the wrapper again        *)
(* changes nothing, wherever it stood before, and uninstalling right after *)
(* an install gives back the profile without a wrapper, its last line      *)
(* completed, so that blank lines neither pile up nor vanish               *)
(* (hooks_cmd.go:359, 372).                                                *)
SetupIsIdempotent ==
    ~ overtaken /\ ~ torn /\ command.at # "write" =>
        LET once == WithWrapper(profile)
        IN  /\ WithWrapper(once) = once
            /\ StripMarkedBlock(once) = WholeLines(StripMarkedBlock(profile))
=============================================================================
