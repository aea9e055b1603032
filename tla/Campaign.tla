------------------------------ MODULE Campaign ------------------------------
(***************************************************************************)
(* One process of the command line (cli.py main): its checks at startup,   *)
(* discovery, and the cycles of Orchestrator.run over several specs, until *)
(* it exits.  In --continuous mode it discovers the specs again after each *)
(* cycle and goes on while any is incomplete.                              *)
(*                                                                         *)
(* A chunk is one step here, with the outcomes SpecBuild finds for it.     *)
(***************************************************************************)
EXTENDS WorkChunks

CONSTANTS
  Options,  \* command lines
  Hosts,    \* what the process finds: tools, tokens, keys git needs
  Found,    \* sets of specs the repository may hold
  Sizes,    \* sizes the files may have, over time
  Ledgers,  \* what earlier runs may have left in the ledger files
  Faults    \* "git": a git config call of the credential probe may time out

Keys    == {"ssh", "gpg"}
Engines == {"claude", "huggingface"}
NoSpec  == "none"

Option == [engine : {"auto"} \cup Engines, spec : Specs \cup {NoSpec},
           continuous : BOOLEAN, noResume : BOOLEAN, reset : BOOLEAN, dryRun : BOOLEAN,
           skipAuth : BOOLEAN, skipCred : BOOLEAN]
Host   == [tools : SUBSET {"git", "claude", "forge"}, token : BOOLEAN, needs : SUBSET Keys]

ASSUME CampaignAssumption ==
  /\ Options \subseteq Option /\ Hosts \subseteq Host /\ NoSpec \notin Specs
  /\ Found \subseteq SUBSET Specs /\ Sizes \subseteq [Files -> Nat]
  /\ Ledgers \subseteq [Specs -> SUBSET Seq(Nat)] /\ Faults \subseteq {"git"}

VARIABLES
  pc, exit,        \* the exit code, once pc is "over"
  opts, host, found,
  engine,          \* opts["engine"], then the engine selected
  missing, asked,  \* what the last probe missed; has the user been prompted?
  boxes, saved,    \* boxes checked in the working tree, and in HEAD
  disk,            \* merged ids in each ledger file
  size,            \* of the files, in tokens
  given, idx,      \* cycle_specs, and how many of them were begun
  queue, chunks,   \* enforce_token_budget: still to examine, and its result
  at, ledger,      \* position in chunks, the ledger in memory
  allOk, failed, completed, abort,
  late,            \* the deadline has passed
  result,          \* of the last cycle: "none", "success" or "failure"
  limited,         \* history: the last call that met a rate limit in this cycle
  due,             \* history: what this cycle was given and has not built
  seen             \* history: keys a probe found since the last cycle

args  == <<opts, host, found>>
creds == <<missing, asked, seen>>
repo  == <<boxes, saved, disk, size>>
split == <<queue, chunks>>
loop  == <<at, ledger, allOk, late>>
tally == <<failed, completed, abort, limited, due>>
run   == <<given, idx, split, loop, tally, result>>
vars  == <<pc, exit, args, engine, creds, repo, run>>

Spec1 == given[idx]
Exit(code) == pc' = "over" /\ exit' = code

Init ==
  /\ pc = "args" /\ exit = 0
  /\ opts \in Options /\ host \in Hosts /\ found \in Found
  /\ engine = opts.engine
  /\ missing = {} /\ asked = FALSE /\ seen = {}
  /\ boxes = [s \in Specs |-> {}] /\ saved = boxes
  /\ disk \in Ledgers /\ size \in Sizes
  /\ given = <<>> /\ idx = 0 /\ queue = <<>> /\ chunks = <<>> /\ at = 1 /\ ledger = {}
  /\ allOk = FALSE /\ failed = 0 /\ completed = 0 /\ abort = FALSE /\ late = FALSE
  /\ result = "none" /\ limited = "no" /\ due = {}
-----------------------------------------------------------------------------
(* Startup *)

\* Arguments (but --help), endpoint, repository directory and run lock.
CheckArguments ==
  /\ pc = "args"
  /\ \/ pc' = "deps" /\ UNCHANGED exit
     \/ \E code \in {1, 2, 75} : Exit(code)
  /\ UNCHANGED <<args, engine, creds, repo, run>>

ValidateDependencies ==
  /\ pc = "deps"
  /\ engine' = IF engine = "auto" /\ "claude" \notin host.tools THEN "huggingface" ELSE engine
  /\ IF \/ "git" \notin host.tools
        \/ engine = "claude" /\ "claude" \notin host.tools
        \/ engine' = "huggingface" /\ ~host.token
     THEN Exit(1)
     ELSE pc' = "auth" /\ UNCHANGED exit
  /\ UNCHANGED <<args, creds, repo, run>>

\* gh or glab: missing, not logged in and the login failed, or the status asked
\* for after it timed out. A status that times out at first is let pass.
AuthPreflight ==
  /\ pc = "auth"
  /\ \/ /\ opts.skipAuth \/ "forge" \in host.tools
        /\ pc' = (IF opts.skipCred THEN "select" ELSE "probe") /\ UNCHANGED exit
     \/ ~opts.skipAuth /\ Exit(1)
  /\ UNCHANGED <<args, engine, creds, repo, run>>

\* select_engine. The list for failover holds the engine only: main compares
\* its name with "claude", which is not what Claude's engine is called.
SelectEngine ==
  /\ pc = "select"
  /\ engine' = IF engine = "auto" THEN "claude" ELSE engine
  /\ pc' = "discover"
  /\ UNCHANGED <<exit, args, creds, repo, run>>

Open == {s \in found : Incomplete(s, boxes[s])}

\* verify_git_identity, the branch, the specs and the flags that end it here.
Discover ==
  /\ pc = "discover"
  /\ given' = IF opts.spec = NoSpec THEN Walk(Open) ELSE <<opts.spec>>
  /\ \/ Exit(1)                                        \* no git identity
     \/ /\ opts.spec \in found \cup {NoSpec}
        /\ IF given' = <<>> \/ opts.dryRun THEN Exit(0) ELSE pc' = "cycle" /\ UNCHANGED exit
  /\ disk' = IF opts.reset /\ pc' = "cycle" THEN [s \in Specs |-> {}] ELSE disk
  /\ UNCHANGED <<args, engine, creds, boxes, saved, size, idx, split, loop, tally, result>>
-----------------------------------------------------------------------------
(* Credentials: at startup and between cycles *)

\* The agents' keys come and go by themselves. A probe that fails counts as
\* locked, except that a failing git config call reads as a key not needed.
Probe ==
  \E locked \in SUBSET host.needs, blind \in SUBSET host.needs :
    /\ blind # {} => "git" \in Faults
    /\ missing' = locked \ blind
    /\ seen' = seen \cup (host.needs \ (locked \cup blind))

AfterProbe == IF result = "none" THEN "select" ELSE "cycle"

\* _ensure_git_credentials_unlocked: probe, then ssh, then gpg.
ProbeCredentials ==
  /\ pc = "probe" /\ Probe
  /\ asked' = FALSE /\ pc' = "ssh"
  /\ UNCHANGED <<exit, args, engine, repo, run>>

NextKey(k) == IF k = "ssh" THEN "gpg" ELSE AfterProbe

KeyReady(k) ==
  /\ pc = k /\ k \notin missing
  /\ pc' = NextKey(k) /\ asked' = FALSE
  /\ UNCHANGED <<exit, args, engine, missing, seen, repo, run>>

\* ssh-add, or a signature that warms up the GPG agent.
Prompt(k) ==
  /\ pc = k /\ k \in missing /\ ~asked
  /\ Probe /\ asked' = TRUE
  /\ UNCHANGED <<pc, exit, args, engine, repo, run>>

PromptFails(k) ==
  /\ pc = k /\ k \in missing /\ ~asked /\ opts.continuous
  /\ Exit(1)
  /\ UNCHANGED <<args, engine, creds, repo, run>>

\* Slip: a key still locked is only warned of.
StillLockedWarns(k) ==
  /\ pc = k /\ k \in missing /\ asked
  /\ pc' = NextKey(k) /\ asked' = FALSE
  /\ UNCHANGED <<exit, args, engine, missing, seen, repo, run>>
\* Still locked: a warning, or the end in continuous mode.
StillLocked(k) ==
  /\ pc = k /\ k \in missing /\ asked
  /\ IF opts.continuous THEN Exit(1) ELSE pc' = NextKey(k) /\ UNCHANGED exit
  /\ asked' = FALSE
  /\ UNCHANGED <<args, engine, missing, seen, repo, run>>
-----------------------------------------------------------------------------
(* A cycle: Orchestrator.run *)

\* Slip: the counters live as long as the orchestrator.
StartRunCountsOn ==
  /\ pc = "cycle" /\ pc' = "spec"
  /\ idx' = 0 /\ abort' = FALSE /\ late' = FALSE /\ limited' = "no" /\ seen' = {}
  /\ due' = {<<given[i], <<>>>> : i \in 1..Len(given)}
  /\ UNCHANGED <<exit, args, engine, missing, asked, repo, given, split,
                 at, ledger, allOk, failed, completed, result>>
StartRun ==
  /\ pc = "cycle" /\ pc' = "spec"
  /\ idx' = 0 /\ failed' = 0 /\ completed' = 0 /\ abort' = FALSE
  /\ late' = FALSE /\ limited' = "no" /\ seen' = {}
  /\ due' = {<<given[i], <<>>>> : i \in 1..Len(given)}
  /\ UNCHANGED <<exit, args, engine, missing, asked, repo, given, split,
                 at, ledger, allOk, result>>

\* chunk_spec raises: the spec cannot be parsed, or has more than 100 chunks.
ChunkSpecRaises ==
  /\ pc = "spec" /\ idx < Len(given) /\ ~abort
  /\ idx' = idx + 1
  /\ UNCHANGED <<pc, exit, args, engine, creds, repo, given, split, loop, tally, result>>

\* Slip: the abort leaves the chunk loop only.
NextSpecAnyway ==
  /\ pc = "spec" /\ idx < Len(given)
  /\ idx' = idx + 1 /\ pc' = "budget" /\ chunks' = <<>>
  /\ queue' = LET plan == ChunkSpec(given[idx'], boxes[given[idx']])
              IN  [n \in DOMAIN plan |-> [chunk |-> plan[n], depth |-> 0, seed |-> 0]]
  /\ UNCHANGED <<exit, args, engine, creds, repo, given, loop, tally, result>>
NextSpec ==
  /\ pc = "spec" /\ idx < Len(given) /\ ~abort
  /\ idx' = idx + 1 /\ pc' = "budget" /\ chunks' = <<>>
  /\ queue' = LET plan == ChunkSpec(given[idx'], boxes[given[idx']])
              IN  [n \in DOMAIN plan |-> [chunk |-> plan[n], depth |-> 0, seed |-> 0]]
  /\ UNCHANGED <<exit, args, engine, creds, repo, given, loop, tally, result>>

BudgetKeeps ==
  /\ pc = "budget" /\ queue # <<>> /\ Dispatched(Spec1, Head(queue), size, engine)
  /\ queue' = Tail(queue) /\ chunks' = Append(chunks, Head(queue).chunk)
  /\ UNCHANGED <<pc, exit, args, engine, creds, repo, given, idx, loop, tally, result>>

BudgetSplits ==
  /\ pc = "budget" /\ queue # <<>> /\ ~Dispatched(Spec1, Head(queue), size, engine)
  /\ queue' = Halves(Head(queue)) \o Tail(queue)
  /\ UNCHANGED <<pc, exit, args, engine, creds, repo, given, idx, chunks, loop, tally, result>>

NothingToBuild ==
  /\ pc = "budget" /\ queue = <<>> /\ chunks = <<>>
  /\ completed' = completed + 1 /\ due' = due \ {<<Spec1, <<>>>>} /\ pc' = "spec"
  /\ UNCHANGED <<exit, args, engine, creds, repo, given, idx, split, loop,
                 failed, abort, limited, result>>

\* Slip: the ledger is loaded whatever --no-resume says.
LoadLedgerAlways ==
  /\ pc = "budget" /\ queue = <<>> /\ chunks # <<>>
  /\ ledger' = disk[Stem[Spec1]]
  /\ at' = 1 /\ allOk' = TRUE /\ pc' = "chunk"
  /\ due' = (due \ {<<Spec1, <<>>>>}) \cup {<<Spec1, chunks[n].id>> : n \in 1..Len(chunks)}
  /\ UNCHANGED <<exit, args, engine, creds, repo, given, idx, split, late,
                 failed, completed, abort, limited, result>>
LoadLedger ==
  /\ pc = "budget" /\ queue = <<>> /\ chunks # <<>>
  /\ ledger' = IF opts.noResume THEN {} ELSE disk[Stem[Spec1]]
  /\ at' = 1 /\ allOk' = TRUE /\ pc' = "chunk"
  /\ due' = (due \ {<<Spec1, <<>>>>}) \cup {<<Spec1, chunks[n].id>> : n \in 1..Len(chunks)}
  /\ UNCHANGED <<exit, args, engine, creds, repo, given, idx, split, late,
                 failed, completed, abort, limited, result>>

This == chunks[at]
AtChunk == pc = "chunk" /\ at <= Len(chunks)

SkipMerged ==
  /\ AtChunk /\ This.id \in ledger
  /\ at' = at + 1
  /\ UNCHANGED <<pc, exit, args, engine, creds, repo, given, idx, split, ledger, allOk, late,
                 tally, result>>

DeadlineStops ==
  /\ AtChunk /\ This.id \notin ledger
  /\ late' = TRUE /\ allOk' = FALSE /\ at' = Len(chunks) + 1
  /\ UNCHANGED <<pc, exit, args, engine, creds, repo, given, idx, split, ledger, tally, result>>

Execute ==
  /\ AtChunk /\ This.id \notin ledger /\ ~late
  /\ pc' = "execute"
  /\ UNCHANGED <<exit, args, engine, creds, repo, run>>

\* Claude may run into its limit while it fixes a chunk as well. run does not
\* look at the result of the fix: the chunk is committed or fails, no more.
FixMayMeetLimit == limited' \in IF engine = "claude" THEN {limited, "fix"} ELSE {limited}

\* Committed with the marks made before it, then marked and recorded.
ChunkMerges ==
  /\ pc = "execute" /\ pc' = "chunk" /\ at' = at + 1
  /\ saved' = boxes
  /\ boxes' = [boxes EXCEPT ![Spec1] = @ \cup BoxFor(Spec1, This.line, @)]
  /\ ledger' = ledger \cup {This.id} /\ disk' = [disk EXCEPT ![Stem[Spec1]] = ledger']
  /\ size' \in Sizes /\ due' = due \ {<<Spec1, This.id>>} /\ FixMayMeetLimit
  /\ UNCHANGED <<exit, args, engine, creds, given, idx, split, allOk, late,
                 failed, completed, abort, result>>

\* Reverted, marks since the last commit with it; or nothing to commit.
ChunkFails ==
  /\ boxes' \in {boxes, saved}
  /\ failed' = failed + 1 /\ allOk' = FALSE /\ disk' = [disk EXCEPT ![Stem[Spec1]] = ledger]
  /\ size' \in Sizes /\ pc' = "chunk"
  /\ UNCHANGED <<exit, args, engine, creds, saved, given, idx, split, ledger, late,
                 completed, due, result>>

EngineFails ==
  /\ pc = "execute" /\ ChunkFails
  /\ at' = at + 1 /\ FixMayMeetLimit /\ UNCHANGED abort

RateLimited ==
  /\ pc = "execute" /\ engine = "claude" /\ ChunkFails /\ boxes' = saved
  /\ at' = Len(chunks) + 1 /\ abort' = TRUE /\ limited' = "execute"

\* The HuggingFace engine lets LLM errors out; main catches every exception.
EngineRaises ==
  /\ pc = "execute" /\ engine = "huggingface"
  /\ size' \in Sizes /\ Exit(1)
  /\ UNCHANGED <<args, engine, creds, boxes, saved, disk, run>>

EndSpec ==
  /\ pc = "chunk" /\ at > Len(chunks)
  /\ completed' = IF allOk THEN completed + 1 ELSE completed
  /\ pc' = "spec"
  /\ UNCHANGED <<exit, args, engine, creds, repo, given, idx, split, loop,
                 failed, abort, limited, due, result>>

\* The locals of run's loop are gone.
Return == chunks' = <<>> /\ at' = 1 /\ ledger' = {} /\ allOk' = FALSE /\ late' = FALSE

\* Slip: a run is a success if no chunk failed.
EndRunNoFailure ==
  /\ pc = "spec" /\ (idx = Len(given) \/ abort)
  /\ result' = IF failed = 0 THEN "success" ELSE "failure"
  /\ pc' = "report" /\ Return
  /\ UNCHANGED <<exit, args, engine, creds, repo, given, idx, queue, tally>>
EndRun ==
  /\ pc = "spec" /\ (idx = Len(given) \/ abort)
  /\ result' = IF failed = 0 /\ completed = Len(given) THEN "success" ELSE "failure"
  /\ pc' = "report" /\ Return
  /\ UNCHANGED <<exit, args, engine, creds, repo, given, idx, queue, tally>>
-----------------------------------------------------------------------------
(* After a cycle *)

Code == IF result = "success" THEN 0 ELSE 1

LastCycle ==
  /\ pc = "report" /\ ~opts.continuous /\ Exit(Code)
  /\ UNCHANGED <<args, engine, creds, repo, run>>

\* Whatever --spec named: every spec of the repository is looked at again.
Rediscover ==
  /\ pc = "report" /\ opts.continuous
  /\ given' = Walk(Open)
  /\ IF given' = <<>> THEN Exit(Code)
     ELSE pc' = (IF opts.skipCred THEN "cycle" ELSE "reprobe") /\ UNCHANGED exit
  /\ UNCHANGED <<args, engine, creds, repo, idx, split, loop, tally, result>>

ReprobeCredentials ==
  /\ pc = "reprobe" /\ Probe
  /\ pc' = IF missing' = {} THEN "cycle" ELSE "probe"
  /\ UNCHANGED <<exit, args, engine, asked, repo, run>>

\* Ctrl-C; SIGTERM likewise, with 143.
Interrupt ==
  /\ pc # "over" /\ Exit(130)
  /\ UNCHANGED <<args, engine, creds, repo, run>>

Startup == CheckArguments \/ ValidateDependencies \/ AuthPreflight \/ SelectEngine \/ Discover
Credentials ==
  \/ ProbeCredentials \/ ReprobeCredentials
  \/ \E k \in Keys : KeyReady(k) \/ Prompt(k) \/ PromptFails(k) \/ StillLocked(k)
Build ==
  \/ StartRun \/ ChunkSpecRaises \/ NextSpec
  \/ BudgetKeeps \/ BudgetSplits \/ NothingToBuild \/ LoadLedger
  \/ SkipMerged \/ DeadlineStops \/ Execute
  \/ ChunkMerges \/ EngineFails \/ RateLimited \/ EngineRaises \/ EndSpec \/ EndRun
Main == Startup \/ Credentials \/ Build \/ LastCycle \/ Rediscover

Next == Main \/ Interrupt

\* Every call main makes has a timeout, so it always takes a next step.
Spec == Init /\ [][Next]_vars /\ WF_vars(Main)
-----------------------------------------------------------------------------
(* Properties *)

PCs == {"args", "deps", "auth", "probe", "ssh", "gpg", "select", "discover", "cycle", "spec",
        "budget", "chunk", "execute", "report", "reprobe", "over"}

TypeOK ==
  /\ pc \in PCs /\ exit \in Nat
  /\ opts \in Options /\ host \in Hosts /\ found \in Found
  /\ engine \in {"auto"} \cup Engines
  /\ missing \subseteq host.needs /\ asked \in BOOLEAN
  /\ seen \subseteq Keys
  /\ boxes \in [Specs -> SUBSET Nat] /\ saved \in [Specs -> SUBSET Nat]
  /\ \A s \in Specs : boxes[s] \subseteq Tasks[s] /\ saved[s] \subseteq boxes[s]
  /\ size \in Sizes
  /\ idx \in Nat /\ at \in Nat \ {0}
  /\ allOk \in BOOLEAN /\ abort \in BOOLEAN /\ late \in BOOLEAN
  /\ limited \in {"no", "fix", "execute"}
  /\ failed \in Nat /\ completed \in 0..idx
  /\ result \in {"none", "success", "failure"}
  /\ pc \in {"spec", "budget", "chunk", "execute"} => idx \in 0..Len(given)
  /\ pc \in {"budget", "chunk", "execute"} => idx > 0
  /\ pc = "execute" => at <= Len(chunks)

\* The ledger of its spec holds the chunk: run takes it for merged.
OnRecord(d) == d[2] # <<>> /\ d[2] \in disk[Stem[d[1]]]

(* The exit code tells the outcome: 0 after a build means that every chunk  *)
(* the last cycle was given was committed and recorded in it, or, unless    *)
(* --no-resume was given, skipped because the ledger on disk holds its id;  *)
(* none was left out because it failed, a spec could not be read, the       *)
(* deadline passed or execute_chunk met a rate limit.  And, but for a dry   *)
(* run, in continuous mode or without a build no spec is open               *)
(* (cli.py:1210-1281, orchestrator.py:597-598).  The ledger may be wrong    *)
(* about an id: a chunk skipped need not be built.                          *)
ExitZeroMeansBuilt ==
  pc = "over" /\ exit = 0 =>
    /\ opts.noResume => due = {}
    /\ \A d \in due : OnRecord(d)
    /\ ~opts.dryRun /\ (opts.continuous \/ result = "none") => Open = {}

(* In continuous mode a cycle starts only if a probe found each key git     *)
(* needs since the cycle before: at startup, between cycles, or after a     *)
(* prompt (cli.py:422-506, 1252-1266).                                      *)
KeysSeenBeforeCycle ==
  pc = "cycle" /\ opts.continuous /\ ~opts.skipCred => host.needs \subseteq seen

(* Once execute_chunk reported a rate limit the engine is not called again  *)
(* in the cycle, for this spec or the next ones (orchestrator.py:575-584,   *)
(* 288-291). Not so for a limit met while a chunk is fixed: run goes on.    *)
NoCallAfterExecuteLimit == pc = "execute" => limited # "execute"

(* enforce_token_budget cuts the chunks of a plan into pieces that follow   *)
(* each other in the order of the document, name the files of each line     *)
(* once each in their order, and lose no line of the plan; and no two       *)
(* chunks of a spec get the same id, on which the ledger relies             *)
(* (chunker.py:408-452).                                                    *)
PiecesTileTheSpec ==
  /\ pc \in {"chunk", "execute"} =>
       /\ \A m, n \in 1..Len(chunks) : chunks[m].id = chunks[n].id => m = n
       /\ Tiled(Spec1, chunks)
  /\ pc = "budget" /\ queue = <<>> => LinesOf(chunks) = Planned(Spec1, boxes[Spec1])

(* A cycle that succeeds without a ledger leaves no box open in any spec it *)
(* was given: every piece that merged closed a box, whatever its title, and *)
(* none was skipped for an id it shares with another                        *)
(* (orchestrator.py:287-602, spec_discovery.py:174-229).                    *)
SuccessClosesEveryBox ==
  pc = "report" /\ result = "success" /\ opts.noResume =>
    \A i \in 1..Len(given) : Tasks[given[i]] \subseteq boxes[given[i]]

\* Nothing keeps continuous mode going but cycles that fail.
Ending ==
  opts.continuous =>
    opts.noResume /\ (\A s \in found : Tasks[s] # {}) /\ <>[](result # "failure")

(* The process ends; in continuous mode, without a ledger and with boxes in *)
(* every spec, it ends if its cycles succeed from some time on: a cycle     *)
(* that succeeds leaves no box open, whatever titles and pieces its marks   *)
(* came from (cli.py:1210-1281).                                            *)
CampaignEnds == Ending => <>(pc = "over")
=============================================================================
