--------------------------- MODULE UsageCollector ---------------------------
(***************************************************************************)
(* The transcript collector of the usage loop.  Scan walks the agents'     *)
(* transcript directories and keeps an index entry per path: what parsing  *)
(* the file gave, and the size and modification time it had when the walk  *)
(* looked at it.  A file with the size and time of its entry is not read   *)
(* again, not even after a restart, as the index is kept in the state      *)
(* database.  The agents go on appending to the files, in writes that may  *)
(* end in the middle of a line, and move them to the archive, while Scan   *)
(* walks.                                                                  *)
(*                                                                         *)
(* A transcript is modelled by the number of complete lines it has, each   *)
(* worth a token, and whether an incomplete one follows.  A session has    *)
(* one transcript, which is in one directory at a time.  The timestamps,   *)
(* projects and models inside the files are left out.                      *)
(***************************************************************************)
EXTENDS Naturals

CONSTANTS Sessions,   \* provider session ids
          MaxWrites,  \* bound: writes to one transcript
          MaxMoves,   \* bound: moves of one transcript
          MaxFaults,  \* bound: failing scans and failing writes of the index
          MaxStops    \* bound: times the daemon stops

ASSUME CollectorAssumption ==
    {MaxWrites, MaxMoves, MaxFaults, MaxStops} \subseteq Nat

VARIABLES
    files,         \* the transcript of each session
    moves,         \* how often each was moved
    up,            \* the daemon is running
    sources,       \* Collector.sources
    scan,          \* the Scan in progress
    usageSources,  \* d.usageSources, what the dashboard counts
    stored,        \* the index in the state database
    faults,        \* scans and writes that failed
    stops          \* how often the daemon stopped

agents == <<files, moves>>
vars == <<files, moves, up, sources, scan, usageSources, stored, faults, stops>>

-----------------------------------------------------------------------------
(* "sessions" is walked before "archived_sessions", and sorts after it. *)
Roots == {"sessions", "archived_sessions"}
Paths == Roots \X Sessions

Lines == 0 .. MaxWrites
Writes == 0 .. MaxWrites

(* modified counts the writes: ModTime, which a rename does not change. *)
File == [at : Roots \cup {"nowhere"}, lines : Lines, torn : BOOLEAN,
         modified : Writes]
NewFile == [at |-> "nowhere", lines |-> 0, torn |-> FALSE, modified |-> 0]

(* Size and ModTime, as the walk sees them. *)
Info == [lines : Lines, torn : BOOLEAN, modified : Writes]
InfoOf(file) == [lines |-> file.lines, torn |-> file.torn,
                 modified |-> file.modified]
NoInfo == InfoOf(NewFile)

(* An index entry; files without tokens have none. *)
Entry == [tokens : 1 .. MaxWrites, info : Info]
NoEntry == [tokens |-> 0, info |-> NoInfo]
Index == [Paths -> Entry \cup {NoEntry}]
EmptyIndex == [path \in Paths |-> NoEntry]

IdleScan == [pc |-> "idle", root |-> "sessions", list |-> {},
             reading |-> {}, info |-> NoInfo]
Scanning == [pc : {"idle", "list", "stat", "parse", "put", "publish"},
             root : Roots, list : SUBSET Sessions, reading : SUBSET Sessions,
             info : Info]

(* The files a directory has. *)
FilesIn(root) == {s \in Sessions : files[s].at = root}

Init ==
    /\ files = [s \in Sessions |-> NewFile]
    /\ moves = [s \in Sessions |-> 0]
    /\ up = TRUE
    /\ sources = EmptyIndex
    /\ scan = IdleScan
    /\ usageSources = EmptyIndex
    /\ stored = EmptyIndex
    /\ faults = 0
    /\ stops = 0

-----------------------------------------------------------------------------
(* The agents *)

(* One write, which completes a line or ends in the middle of one; the     *)
(* first creates the file.  An agent that has it open also writes to it    *)
(* after it was archived.                                                  *)
Write(s) ==
    /\ files[s].modified < MaxWrites
    /\ files[s].at # "nowhere" \/ files[s].modified = 0
    /\ \E torn \in BOOLEAN :
          files' = [files EXCEPT ![s] =
                      [at |-> IF @.at = "nowhere" THEN "sessions" ELSE @.at,
                       torn |-> torn,
                       lines |-> IF torn THEN @.lines ELSE @.lines + 1,
                       modified |-> @.modified + 1]]
    /\ UNCHANGED <<moves, up, sources, scan, usageSources, stored, faults, stops>>

(* Archived, taken back by a resumed session, or deleted for good. *)
Move(s, to) ==
    /\ files[s].at # "nowhere" /\ files[s].at # to
    /\ moves[s] < MaxMoves
    /\ moves' = [moves EXCEPT ![s] = @ + 1]
    /\ files' = [files EXCEPT ![s].at = to]
    /\ UNCHANGED <<up, sources, scan, usageSources, stored, faults, stops>>

-----------------------------------------------------------------------------
(* Scan *)

(* Fault: every Scan starts from the files there are. *)
ListForgettingTheGone ==
    /\ up /\ scan.pc \in {"idle", "list"}
    /\ scan' = [scan EXCEPT !.pc = "stat", !.list = FilesIn(scan.root)]
    /\ sources' = [path \in Paths |->
                     IF path[1] = scan.root /\ path[2] \notin FilesIn(scan.root)
                     THEN NoEntry ELSE sources[path]]
    /\ UNCHANGED <<agents, up, usageSources, stored, faults, stops>>

(* WalkDir reads a directory before it visits the files in it. *)
List ==
    /\ up /\ scan.pc \in {"idle", "list"}
    /\ scan' = [scan EXCEPT !.pc = "stat", !.list = FilesIn(scan.root)]
    /\ UNCHANGED <<agents, up, sources, usageSources, stored, faults, stops>>

(* A file that is gone by now is skipped, and one that looks as it did. *)
Unchanged(s) ==
    \/ files[s].at # scan.root
    \/ /\ sources[<<scan.root, s>>] # NoEntry
       /\ sources[<<scan.root, s>>].info = InfoOf(files[s])

Stat(s) ==
    /\ scan.pc = "stat" /\ s \in scan.list
    /\ scan' = IF Unchanged(s) THEN [scan EXCEPT !.list = @ \ {s}]
               ELSE [scan EXCEPT !.pc = "parse", !.list = @ \ {s},
                                 !.reading = {s}, !.info = InfoOf(files[s])]
    /\ UNCHANGED <<agents, up, sources, usageSources, stored, faults, stops>>

(* Fault: size and time are taken once the file was read. *)
ParsedBeforeStat(s) ==
    IF files[s].at # scan.root \/ scan.info.lines = 0
    THEN sources[<<scan.root, s>>]
    ELSE [tokens |-> scan.info.lines, info |-> InfoOf(files[s])]

(* Fault: a transcript without tokens gets an entry too. *)
ParsedEmptyToo(s) ==
    IF files[s].at # scan.root THEN sources[<<scan.root, s>>]
    ELSE [tokens |-> files[s].lines, info |-> scan.info]

(* The entry is what the file holds now, under the size and time it had    *)
(* before.  Lines that are not complete do not parse and are skipped; a    *)
(* file that is gone or has no tokens leaves the entry as it was.          *)
Parsed(s) ==
    IF files[s].at # scan.root \/ files[s].lines = 0
    THEN sources[<<scan.root, s>>]
    ELSE [tokens |-> files[s].lines, info |-> scan.info]

Parse(s) ==
    /\ scan.pc = "parse" /\ s \in scan.reading
    /\ sources' = [sources EXCEPT ![<<scan.root, s>>] = Parsed(s)]
    /\ scan' = [scan EXCEPT !.pc = "stat", !.reading = {}, !.info = NoInfo]
    /\ UNCHANGED <<agents, up, usageSources, stored, faults, stops>>

EndOfRoot ==
    /\ scan.pc = "stat" /\ scan.list = {}
    /\ scan' = IF scan.root = "sessions"
               THEN [IdleScan EXCEPT !.pc = "list", !.root = "archived_sessions"]
               ELSE [IdleScan EXCEPT !.pc = "put"]
    /\ UNCHANGED <<agents, up, sources, usageSources, stored, faults, stops>>

(* A directory that vanishes ends the walk of this root; any other error   *)
(* ends the Scan, with the entries it has renewed so far.                  *)
Fail ==
    /\ scan.pc = "stat"
    /\ faults < MaxFaults
    /\ faults' = faults + 1
    /\ scan' = [scan EXCEPT !.list = {}] \/ scan' = IdleScan
    /\ UNCHANGED <<agents, up, sources, usageSources, stored, stops>>

-----------------------------------------------------------------------------
(* refreshUsage, with the index Scan returned *)

(* A failed write is logged; the next refresh writes the whole index again. *)
PutUsageSources ==
    /\ scan.pc = "put"
    /\ \/ stored' = sources /\ UNCHANGED faults
       \/ faults < MaxFaults /\ faults' = faults + 1 /\ UNCHANGED stored
    /\ scan' = [scan EXCEPT !.pc = "publish"]
    /\ UNCHANGED <<agents, up, sources, usageSources, stops>>

Publish ==
    /\ scan.pc = "publish"
    /\ usageSources' = sources
    /\ scan' = IdleScan
    /\ UNCHANGED <<agents, up, sources, stored, faults, stops>>

-----------------------------------------------------------------------------
(* The daemon stops and starts. *)

Stop ==
    /\ up /\ stops < MaxStops
    /\ up' = FALSE
    /\ stops' = stops + 1
    /\ sources' = EmptyIndex
    /\ scan' = IdleScan
    /\ usageSources' = EmptyIndex
    /\ UNCHANGED <<agents, stored, faults>>

New ==
    /\ ~ up
    /\ up' = TRUE
    /\ sources' = stored
    /\ usageSources' = stored
    /\ UNCHANGED <<agents, scan, stored, faults, stops>>

-----------------------------------------------------------------------------
RefreshUsage ==
    \/ List \/ EndOfRoot \/ PutUsageSources \/ Publish
    \/ \E s \in Sessions : Stat(s) \/ Parse(s)

Next ==
    \/ \E s \in Sessions : \/ Write(s)
                           \/ \E to \in Roots \cup {"nowhere"} : Move(s, to)
    \/ RefreshUsage \/ Fail
    \/ Stop \/ New

Spec == Init /\ [][Next]_vars

(* The usage loop's ticker keeps firing, and the daemon is restarted. *)
FairSpec == Spec /\ WF_vars(RefreshUsage) /\ WF_vars(New)

-----------------------------------------------------------------------------
(* DeduplicateSources and aggregateProjects: of the entries of a session   *)
(* the one modified last counts, and of two equal ones the one whose path  *)
(* sorts first.                                                            *)

(* Fault: the later path wins. *)
CountedByPath(index, s) ==
    IF index[<<"sessions", s>>] # NoEntry THEN index[<<"sessions", s>>].tokens
    ELSE index[<<"archived_sessions", s>>].tokens

(* Fault: both count. *)
CountedTwice(index, s) ==
    index[<<"sessions", s>>].tokens + index[<<"archived_sessions", s>>].tokens

Counted(index, s) ==
    LET live == index[<<"sessions", s>>]
        archived == index[<<"archived_sessions", s>>]
    IN  IF archived = NoEntry \/ live.info.modified > archived.info.modified
        THEN live.tokens ELSE archived.tokens

(* What must be true of it *)

(* Every variable holds a value of its kind. *)
TypeOK ==
    /\ files \in [Sessions -> File]
    /\ moves \in [Sessions -> 0 .. MaxMoves]
    /\ up \in BOOLEAN
    /\ sources \in Index
    /\ scan \in Scanning
    /\ usageSources \in Index
    /\ stored \in Index
    /\ faults \in 0 .. MaxFaults
    /\ stops \in 0 .. MaxStops

(* A transcript that Scan met in both directories, or more than once, is   *)
(* not counted twice (collector.go:257): a session never counts for more   *)
(* than its agent wrote, in memory or in what a restart will start from.   *)
(* (A session has one transcript here.  Of two files with its id at other  *)
(* paths the code counts one, too, as if it were a copy of the other.)     *)
NothingIsCountedTwice ==
    \A s \in Sessions, index \in {usageSources, stored} :
        Counted(index, s) <= files[s].lines

(* Tokens that were spent stay spent: while the daemon runs, what it shows *)
(* for a session never goes down, although its transcript is moved back    *)
(* and forth under the walk, torn by a write that is not complete, or deleted.*)
CountNeverDecreases ==
    [][up /\ up' => \A s \in Sessions :
          Counted(usageSources', s) >= Counted(usageSources, s)]_vars

(* Once nobody writes any more, every transcript comes to be counted in    *)
(* full, and stays so: an append between the look at a file and its        *)
(* reading, a move under the walk, a failed Scan or write of the index and *)
(* a restart from an old index never leave a stale entry trusted.          *)
TranscriptsAreCounted ==
    \A s \in Sessions :
        <>[](files[s].at # "nowhere" => Counted(usageSources, s) = files[s].lines)
=============================================================================
