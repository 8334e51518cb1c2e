# ccmsg in TLA+

Specifications of claude-ccmsg: a daemon and a hooks module through which Claude
Code sessions message each other and a person writes to them from a web UI. They
sit beside the code they are read from (`src/packages/daemon/src`, `src/hooks`);
`PROJECT.json` maps each definition to its lines.

## 1. The system

```
 web UI tabs ──ws──┐                            ┌── sidecar ──stdio── hooks module ── Claude Code
                   ├── daemon (one per host) ───┤   (one per run,     (loaded in the   (composer,
 CLI, tools ──uds──┘   server.ts and stores     │    cli/sidecar.ts)   harness)         turns, jsonl)
                                                └── sessions/<pid>.json, <session>.jsonl (read only)
```

- A **session** is a conversation with an id; a **run** is one load of the hooks
  module in a harness process. `/clear` and `/resume` move a run to another id.
- Each module keeps a **sidecar** process: a socket the daemon writes requests to,
  and a connection to the daemon on which it names the run (`sidecar_hello`) and
  sends the replies.
- The daemon runs its handlers on one thread; they interleave at every `await`.
  So do the module's, with the person and the harness besides.

### Components, their state and what makes them correct

| component | state | operations | what makes it correct | modelled in |
|---|---|---|---|---|
| live runs (`sidecar-runs.ts`, the poll of `agents.ts`) | runs by session and run id, who named them, what each run id served; the rows of the last poll round | announce, leave, liveOf, movedOn, reconcile | the maps agree; one run per process; a live run is not dropped; "the session moved on" stays said | `SidecarRuns` |
| prompt.send (`hooks/prompt-send.ts`) | queue, current request, saved draft, generation; outside it the composer, the Enters and submits under way | prompt.send, fill, Enter, wait, put back; prompt.submit and prompt.change handlers | the answer is true; the person's draft survives; every request is answered | `PromptSend` |
| user_prompt (`user-prompt.ts`, `sidecar-call.ts`) | the loop of each prompt over its runs, the requests waiting for a reply | ask, write, reply, deadline | the text goes in at most once; the answer is as true as the module's word; it comes | `PromptOnce`, `UserPrompt` |
| unread says (`say-unread.ts`, op `say_read`) | says of live sessions, read ids in memory and on disk, what the tabs show | fold, say_read, serialised writes, start | read stays read; what is answered is on disk; tabs are current | `SayRead` |
| transcript relay (`transcript-relay.ts`) | per session: file, offset, identity, rows read and awaited, folds, tabs, catch-ups in flight | push, retry, catch-up, retarget, subscribe | every line once and in order; every wait ends | `TranscriptRelay` |
| pushes and row effects (`hooks/transcript-push.ts`, `row-effects.ts`) | the module's queue of rows; what each row's effect was done for | push, take, effects | rows come in order; each say is spoken once | `RowEffects` |
| peer delivery (`send-message.ts`, `peer-inject.ts`, `serial.ts`) | one line of requests, one line of deliveries per session, the watched refusals | send_message, notify, deliver | order per session; what is told of a message is so | `PeerDelivery` |
| wake (`session-wake.ts`, `session-errors.ts`) | sessions stopped on an error, the stalls woken | online, woken, not delivered | one wake per stall | `SessionWake` |
| request override and session facts (both `request-override.ts`, `hooks/facts.ts`, `session-facts.ts`) | a session override in the daemon and the module, one-shots, the facts the daemon holds | change, hand over, arm, bind, drop, send | a one-shot is its turn's only; what is held is applied, what is shown is so | `RequestOverride` |
| sidecar keeping (`hooks/sidecar.ts`, `cli/sidecar.ts`) | the sidecar of a module, its socket, its id | start, replace, respawn, name | one sidecar; the session is served in the end | `SidecarKeeper` |
| daemon lifecycle (`daemon-shutdown.ts`, `flock.ts`, `server.ts` start, `cli/client.ts`) | lock, path, pid file, port; the steps of a start and a stop | spawn, connect, upgrade, restart, shut down | who is up has all four; the newest stays; a client is served | `DaemonLifecycle` |
| the rest | | | | section 6 |

### What is hard in it

- **Answers about an effect elsewhere.** The daemon tells a person "accepted" or
  "not_delivered" of a text that travels over a socket, a process and a composer
  it cannot see. Not-delivered invites a retry, so it must not be wrong.
- **Handlers that interleave at awaits.** A value read before an await (the
  composer, a cached poll round, the set of live runs) is stale after it.
- **Readings against a writer.** jsonl and state files are read while Claude Code
  writes, replaces and removes them; rows are pushed before they are written.
- **Moves.** A run changes its session id while requests for the old one are under way.
- **Crashes, lost and late replies**: of a sidecar, a harness, the daemon between a
  mark in memory and its file.

`PROJECT.json` lists each place in the code under "hazards", with the properties
that would see it go wrong.

## 2. The modules

`X` is the specification, `MCX` its instance for TLC with `MCX*.cfg`, `XProofs` its
theorems; those of PromptSend and RequestOverride are both in `PromptProofs`, and
RowEffects' follow the relay's in `TranscriptRelayProofs`. Names of RequestOverride that
PromptSend has too start with Override (`OverrideTypeOK`). Mutated forms of a definition
(`Name_How`) stand before it: plausible bugs that its property must notice. They are no
part of the specification.

**SidecarRuns.** `runs`, `byOwner`, `served` are the three maps of `SidecarRuns`;
`Announce`, `Leave`, `RoundEnd` are `announce`, `leave`, `reconcile`. A poll round
takes three steps, as it has awaits between reading the state files, caching the
rows and reconciling: the other operations come in between. The order in which
`reconcile` visits the runs and the order of equally near rows are left open.
Processes serve, move, write their state file late and exit. `steady` is history.
Connections that are lost come back on their own, also those of dead harnesses.

**PromptSend.** One action per stretch between two awaits of `handlePromptSend`,
`putBackDraft`, `putBackUnsent` and the event handlers. The composer holds a
sequence of pieces: what the person had, what they type, a request's text. The
person edits, submits and clears; keys and submits arrive late or not at all. A
composer that an Enter or the person cleared is told of in a step of its own
(`ClearTold`, the `after` of prompt.change). A put-back may be refused or throw
(`PutBackThrows`). A `/clear` or `/resume` ends the session and changes its id in two
steps, and in between the sidecar may be started again under the old id, in the new
generation (`SidecarRebound`). `raced` records which races happened, so that a property
can say under which of them it does not hold, and the violation run shows one.

**PromptOnce** is the promise to the person: a text enters at most once, "accepted" is
said of one that is in, "not_delivered" of one that never will be, unless a module
reported wrong of it (`Lapse`). **UserPrompt** is the daemon's loop with its socket
writes (not written, uncertain, written), the table of awaited replies, and lines and
replies that are lost, late or repeated. The module at the other end is taken at its
word, except where PromptSend shows the word broken: it may say accepted of a text that
is not in the session (`ModuleMistakes`), and a text may go in after its not_delivered
(`TextSlips`, which is what `prompt_send_not_in` shows). `lapsed` keeps the requests it
happened to. These lapses are read off the properties of PromptSend; that PromptSend
implements this contract is not checked. `KeepsPromise` is the refinement of PromptOnce,
with `in` the prompts of which some copy is in and `lapsed` those with a request that
lapsed.

**SayRead.** The read set in memory and on disk, writes in one line that fail or
are cut by a restart, folds that come and go with the modules. A say counts as read by
its id (`read`) or because it is older than `since` (`old`). The file may go or be
damaged (`FileSpoils`), and a start that does not read it starts over: no id is read,
and `since` is now (`over`).

**TranscriptRelay.** Each function of the relay is an operator from relay to relay,
and each call from outside an action that composes them the way the code nests
them (a push may read, find the file replaced, start over, and so start a
catch-up). Catch-ups in flight are a set `scans`: superseded ones go on reading.
A file of n lines is 2n long, 2n+1 with a half-written line; a line read from
within is `RestOf` its row. Folds are one sequence, the tabs one tab.

**RowEffects** extends TranscriptRelay with the module's end: rows go into a queue
(`unpushed`), one push is out at a time (`out`), it may throw after it took rows
off the queue, or be given up and arrive late (`late`), and a compaction puts rows
in again. The daemon's handler hands a push to the relay and speaks a say unless
its id was acted on (`done`) or its line is read already. The relay runs on
meanwhile: its catch-ups may throw, the file is replaced, the session goes on in
another file, and a hello names the file anew. Lines are written whole. `taken`, `missed`,
`spoken` and `heard` are history: what was pushed and what was lost, and how often
each say was spoken, in all and since the session was last made live.

**PeerDelivery** has the two lines of `serial.ts`: `line`, in which the requests
read the live runs, and `turn`, one per session, in which deliveries wait. A
delivery is written, watched for a refusal during the write and for a window
after it, and ends as one of four. The harness process at the other end takes,
refuses or drops what came, and moves to other sessions. `put` (the order of the
writes) and `inTime` (refusals that came before the end) are history.
**SessionWake** extends it with the stalls: a recovery asks for wakes, which are
notices among the others, and what they come to is given back.

**RequestOverride** has both ends of an override and the facts that report it:
the daemon's table, the module's session value and one-shots (waiting, bound to a
turn), turns and their requests, and the coalesced chain of `sendSessionFacts`. A
request of a turn takes two steps, as its hooks are awaited between the binding of the
one-shot and its use (`StepBegins`, `StepGoes`). There is one sidecar at a time, under
the current id or one that was left; each line to the module is written on a connection
of its own, so lines come in any order or are lost while the run stays named. Facts are
lost, time out, or are refused: the daemon goes by the session's state file (`filed`),
which follows the id some time later. The module may be loaded anew. `carried` is
history, the turns a one-shot's values went with, and so are `early` (the one-shots
armed between those two steps), `missed` (the newest override written was lost or
overtaken) and `unheard` (the newest facts came to nothing), which the properties use
to say where they stop.

**SidecarKeeper** has the processes a module starts for its sidecar, each by the
steps it takes (spawned, unlinking, listening, named, leaving), the chain of starts
and the respawn of one that ended, and the daemon's register of who is named.
Starts overlap as the code lets them: a start counts as over before its sidecar is
spawned. `met` is history: the sidecars run while another was about to be.

**DaemonLifecycle** has the daemon processes by the step of their start or stop,
the four resources, and the commands as clients: `ensureDaemon` (connect, spawn,
poll), the upgrade of an older daemon and `daemon restart`; `daemon stop` may come
to a daemon at any time. Lock,
path, pid file and port are taken and let go of one at a time, and daemons are
killed or fail to read their configuration at any of those steps.

How they compose: SidecarRuns answers `liveOf`, which UserPrompt takes as any set of
runs; UserPrompt assumes of the module's replies what PromptSend's properties leave;
SidecarRuns' live sessions are TranscriptRelay's `GoesLive`/`GoesDown`, and
TranscriptRelay's lines are SayRead's `SayWritten`/`CatchUpLands`. RowEffects runs over
the relay itself, SessionWake over the deliveries themselves. SidecarKeeper is how the
connections of SidecarRuns, UserPrompt and RequestOverride come, end and overlap; the
overlap is only there, and RequestOverride has one sidecar. DaemonLifecycle is how the
daemon of all of them stops and comes back, which there is one step.

## 3. The runs

| run | states | question |
|---|---|---|
| `sidecar_runs` | 476k | Is the register consistent, and are steady runs kept, under any order of hellos, closes, rounds, moves and exits? |
| `prompt_send` | 2.0M | Are the answers true, the draft kept and every request answered, against person and harness? |
| `user_prompt` | 282k | Does the loop implement PromptOnce over lossy sockets and modules that may report wrong? |
| `say_read` | 709k | Is what is answered on disk, through failures, restarts and a damaged file? |
| `transcript_relay` | 366k | Is every line handed on once and in order, and does every wait end? |
| `row_effects` | 666k | Do rows come in order and are says spoken once, across throws, late pushes, compactions, failed catch-ups, replaced files and restarts? |
| `session_wake` | 461k | Do deliveries keep the order of asking, is what is told so, is each stall woken once, is everyone answered? |
| `request_override` | 1.2M | Is a one-shot its turn's only, and do what is held and what is shown end up so, through lost, overtaken and refused lines and facts? |
| `sidecar_keeper` | 1.1M | Is there one sidecar unless starts meet, and is the session served in the end? |
| `daemon_lifecycle` | 513k | Has the daemon that is up all four resources, is the newest left alone, does each command get its connection? |

Two more runs check what a comment says and the code does not do; each is a
finding:

| run | what it shows |
|---|---|
| `prompt_send_not_in` | An Enter between the read and the fill of a put-back sends the text that is then answered not_delivered. |
| `transcript_relay_cut` | A reading that starts within a half-written line gives the rest of it as a line. |

### Bounds

- `sidecar_runs`: two sessions, two runs in two processes, two connections, one
  config dir, clock to 1. Two runs of one session compete for a process, one
  connection takes over from another, a run moves between both sessions. One tick
  separates before and at a round's start, which is all the comparisons tell apart.
  One run names its config dir and one does not.
- `prompt_send`: two requests, one a bash command, so that a queue, a put-back
  overlapping the next request and the wait for a person's Enter happen; one id
  change, one cleared composer not told of yet, and one act of the person or, in its
  place, one sidecar started again within the `/clear`, at any moment.
- `user_prompt`: two prompts, two runs. Replies meant for one prompt can meet the
  other; each run may be asked by both. The theorems have no bound.
- `say_read`: three says of two sessions, three requests, three starts: two writes
  in the line with a third request coming, and a restart after a restart, each with a
  file that reads or not.
- `transcript_relay`: two rows, two paths, two files made, and catch-ups asked for
  from outside (a session that becomes live, moves or is folded again) while fewer
  than two were started; replaced files add more. A superseded catch-up, a rewrite
  under it, a push during it and a row that joins a wait all occur; failing reads
  and failing catch-ups too. Three rows with one file pass as well. No reading starts
  in a half-written line there; `transcript_relay_cut` lifts that.
- `row_effects`: two rows of the main thread and one of a subagent, two files at two
  paths, two catch-ups, and ten budgets, each of two disturbances (a row pushed again
  beside a session that goes down, a restart, a late push, a refold, a catch-up that
  throws, a file that is replaced or a move to another; a throw beside a
  late push; tabs beside a refresh or a session that goes down). Pairs, as the
  hazards are of two meeting; all of them at once is out of reach.
- `session_wake`: two requests (a send to both sessions, a notice to one's own, or
  a wake), two sessions in two processes, one move of a process or module, one
  stall. Two requests are the smallest that can overtake each other. The theorems
  about order and outcome have no bound.
- `request_override`: two fields, two one-shots, nine budgets: two one-shots against two
  turns, and one against a turn and a change; two changes against a sidecar that dies
  or a daemon that stops; a reload of the module against a change or a stop; `/clear`
  against a change with a death, a one-shot, or a stop. Lines and facts are lost,
  overtaken and refused in all of them.
- `sidecar_keeper`: three sidecars' ids, and either two id changes in a row with a
  stop of the daemon, or one change with two deaths and a stop.
- `daemon_lifecycle`: an old command, a new one and a restart all together with no
  deaths, and two of them with two events (a kill, a stop, a start that fails).

`CHECK_DEADLOCK FALSE` stands where the bounds let everything come to an end.
`TypeOK` of SidecarRuns, UserPrompt, SayRead, SidecarKeeper and DaemonLifecycle is
proved, and so no run checks it.

### Fairness

- `prompt_send` assumes the module's own steps happen (`ModuleStep`): its awaits
  of the composer return and its wait has a timer. Nothing is assumed of the
  person, of keys or of submits.
- `user_prompt` assumes the same of the daemon's handlers: writes end at
  `SIDECAR_WRITE_MS`, waits at the deadline. Sockets and modules may be silent.
- `transcript_relay` assumes that the retry timer reaches its deadline, that disk
  reads come back, and that a half-written line is finished (the deadline's read
  may otherwise have to start over in it, which the run leaves out).
- `row_effects` assumes that the module's own steps run and that a push that is out
  is taken or given up (the request's 30 s), nothing of the relay or the session.
- `session_wake` assumes that the daemon's reads, writes and windows end: each has
  a time limit. Nothing is assumed of the harness processes.
- `request_override` assumes that facts that changed are sent, that facts and lines
  arrive or are lost (either may happen each time), that the state file follows the id,
  that a session's sidecar comes back and is named, and that a daemon and a tab
  come back. Nothing is assumed of the person and the turns.
- `sidecar_keeper` assumes that the module's calls return and its timers fire, that
  a process that runs goes on, and that a daemon that stopped is brought up again.
- `daemon_lifecycle` assumes that a daemon goes on with its start and its stop, and
  a client with what it waits for: their timers, connects and exits come.
- `sidecar_runs` and `say_read` check safety and assume none.

## 4. What is proved

Every safety property of the passing runs, invariant or action property, is a
theorem: for every value of the constants, from the named assumptions of each module
(the constants' types, that `None` is none of the values it stands beside, in
PromptSend that the requests are finitely many, in RowEffects that the budgets count).
TLC checked the strengthened invariants on the runs' instances before they were proved.

**SidecarRunsProofs.** `TypeCorrect`, `RegistryConsistent`, `OneRunPerProcess`,
`MovedOnHolds`, `RememberedLongEnough`, `SteadyIsKept`. The invariant `IInv` adds to the
checked properties that the round in flight began no earlier than the last callback
(`TimesInOrder`; without it a round could forget what left after it began), and it holds
that what a run id served its module was started for (`ServedWasLaunched`). For
`MovedOnHolds`: what a run id served is only forgotten once no connection names it, so
"moved on" stays said as long as some run that served the session is named under another
id and is not known dead. Lemmas say what the register's helpers give: the process
chosen is free, a drop keeps what was served, a leave frees one key. `RoundEnd` is the
hard case: runs are tied in some order, and two of a session must not take one process,
whichever is visited first. `SteadyIsKept` adds `SteadyListed`: the round in flight has
the row of each steady run that was named before it began, if the run's dir answered.
What it has no row of is named later, as a round is held only against runs named before
the callback of the one before it.

**UserPromptProofs.** `TypeCorrect`, `OneCopy`, `Promise`. A request is dead when
its line is lost or its reply says the text is out, and its text is then not in unless
its module lapsed. `OthersDead`: all requests of
a prompt but the one it asks are dead, which is why asking the next one is safe;
`LeftUnasked`: those still to be asked were sent nothing; `RequestsAgree` ties a
reply that waits to what the module said, so that the answer is true. `Promise`
is the refinement, one step for each action: a module's end and a late entry are
`Enter`, a module's mistake and a text that slips in are `Lapse`, an answer is `Tell`,
all else stutters.

**SayReadProofs.** `TypeCorrect`, `AnsweredIsOnDisk`, `TabsAreCurrent`,
`NothingUnreadAgain`, `OthersStayUnread`. The invariant orders by inclusion what
counts as read, by its id or its time: on disk, then as each write in the line will
leave it, in their order, then in memory (`ReadGrows`). The first in line is the one
under way and there is one write for each request that waits (`OneWriteEach`), which
marked once (`MarkedOnce`); what it marked is in its own write (`OwnMarkWritten`), and
what was answered read is in every write still to come (`AnsweredKept`). Without the
order an older set could land over a newer one. Only what was written is read or marked
(`OnlyWritten`): so a start that reads no file, and takes every say so far for read,
keeps all of it.

**DaemonLifecycleProofs.** `TypeCorrect`, `UpHasAll`, `NewestIsKept`. Each
resource is held by the process whose step says so, and only while it holds the
lock (`LockHeld`, `PathHeld`, `PidHeld`, `PortHeld`): so no start meets a stop
between them. `ShutdownIsDue`: a client that asks for an upgrade is newer than the
daemon it asks, and only a restart asks without being newer.

**SidecarKeeperProofs.** `TypeCorrect`, `OneIsKept`. `Counted`: while none is kept
nor about to be spawned, the sidecars alive are no more than the starts that met;
one about to be spawned adds the one that `met` then counts.

**PromptProofs**, of PromptSend. `PromptTyped`, `PromptNotDelivered`, `PromptAccepted`,
`PromptTextKept`, from one invariant `PromptInv`, whose parts are proved in turn, the
later ones from the earlier. `Base`: a request is queued, current or answered, its stamp
is of a generation that was (and, unless a sidecar was bound to the old id within a
`/clear`, of the session's own id while it is of this generation: `Lives`), and it
pressed at most one key (which bounds the keys that are out). `TakenAreIn` (with
`Command`): as many copies of a text went into a session as requests were accepted there
or wait to be answered so; it is claimed where the property is, `Undisturbed`: no edited
command, overlap or rebound sidecar. `Enough`: the copies of a text anywhere (in the
composer, a draft, a put-back, a submit under way, in) are no more than the requests
that put it there; an answer not_delivered takes one off both sides. What is in alone is
not inductive, as a copy elsewhere may go in at any time. `InOrder` and `AllSafe`: a
draft is in one pair of hands, and each piece of the person's stands where a step puts
it back from.

**PromptProofs**, of RequestOverride. `OneTurn`, `OverrideTyped`. `InForce`: a one-shot
that is bound was carried by the turn that runs (`BoundBy`), one that is not by
nothing (`UnboundYet`); one that is `early`, armed while a request waited for its hooks,
may have been carried by one turn besides. `UnusedYet` (a prompt still to come armed
nothing) and `OneEach` (each went with its one turn, an early one with two) keep the
prompts apart. `AllTyped`
gives each end its own part and bounds the ids by what was spent of the budget
(`Counted`), without which the lines on their way would have no type.

**SessionWakeProofs.** `TypeCorrect`, `Told`, `AskOrder`, `WokenOnce`. For `Told`, the
end of a delivery goes by what its socket took (`EndIsSo`), and a session told
not_delivered at once has no delivery (`FailedApart`). For `AskOrder`, `Ordered`: the
requests in line are the last that came, the turns of a session stand in the order of
their requests, what was begun is of none later than those, and what is out stands
first. A request asks for all its deliveries in the step that takes it out of the line,
which is what makes this inductive. For `WokenOnce`, `Counted`: a stall that is counted
has a wake that reached its session or may yet, and the last stall of a session that
stayed in the list has none while it is not counted; what is told of a request whose
deliveries have ended stays (`EndedAreSettled`).

**TranscriptRelayProofs.** `Typing`, `FoldsHoldLines`, `TabHoldsLines`,
`GivenUpUnread`, all under the assumption that no reading starts within a
half-written line (`"cut" \notin Faults`; with it, `transcript_relay_cut` shows that
the folds get the rest of a line), while reads and catch-ups may throw. `Good` says of any
relay value that its tab and, outside a catch-up, its folds are the lines of the file it
stands on; each function of the relay (`ReadOn`, `Landed`, `StartCatchUp`,
`Retarget`) has a lemma that it gives a good relay back, and `After` what became of
the catch-up on the way. `Scanning` is why a superseded catch-up does no harm: scans
differ in their number, and that of the current number is of the relay's own file
and end, with folds and lines left that make up the file's start together.
`ReadStays` and `GoesOn` are the world's part: what was read of a file that is still
there stays what it begins with, as an identity never comes back.

In the same module, of RowEffects and under the same assumption: `EffectsTyped`,
`PushedInOrder`, `SpokenOnceEach`. Each step of RowEffects is a step of the relay,
leaves it alone or drops it (`EffectsMoves`), so the relay's `IInv` holds there too,
although RowEffects begins and restarts it otherwise; that goes for the catch-ups that
throw, the files replaced, the moves and the hellos too. `QueueInOrder`: what went in was
taken or missed, or is in the push that is asked or behind it, so a push, or one given
up on that still arrives, has no row ahead of one that is to come. `RelayKept` is what
the relay's own theorems do not need: a row in the folds of a live session counts as
read; so a row whose line the reading passed is not acted on, unless the reading stands
past lines that a catch-up failed to hand on (`partial`, in `PassedIsRead` as in the
property). `HeardDone`: what was spoken since the
session was made live stays acted on as long as it is live.

**Only model-checked**: every liveness property (`EveryRequestAnswered`,
`EveryPromptAnswered`, `EveryWaitEnds`, `QueueDrains`, `HeldIsApplied`,
`ShownInTheEnd`, `ServedInTheEnd`, `EachIsServed`), as the prover does not take
liveness under fairness. Readings that start within a half-written line (`"cut"`) are
left to `transcript_relay_cut`.

## 5. Plan

1. `PromptSend` shown to implement the contract that UserPrompt takes for granted of
   the module's end of prompt.send.
2. A composition of SidecarRuns and UserPrompt, so that the snapshot of live runs
   is the register's.
3. The list of permit requests with its limit; the launch, restart and kill of
   sessions; the pause of the gateway's keepalive.

## 6. What the models do not have

### The code does otherwise than it says, or than one may want

Met while modelling, and in the hazards' notes; no run stands for them. The
properties say where they stop because of these.

- prompt.send: a put-back that the composer refuses, that throws, or that an edit
  overtakes, loses the person's draft. A sidecar that is started again between
  session.end and the change of the id (`hooks/sidecar.ts:267-285`) binds the old id in
  the new generation: a request sent to the old session is then accepted into the next,
  which the generation was to prevent (`hooks/session-lifecycle.ts:10-11`). A composer
  cleared earlier and told of late accepts a command that waits for its Enter.
- user_prompt tells the person what the module said, so a module's wrong word is the
  person's.
- Live runs: a run tied to the other process of its session goes when that process
  exits; the nearest start time is a guess. `movedOn` goes by names: a run still named
  under an id that its module left again counts as one the session moved to.
  A run that names no config dir (`CLAUDE_CONFIG_DIR` is not set,
  `hooks/sidecar.ts:226,237`) may be dropped by a round in which only other dirs
  answered; `SteadyRunKept` is of the others.
- Unread says: a `say-read.json` that does not read makes the daemon start over: the ids
  are forgotten and every say so far counts as read. After a failed write its ids are
  read in memory, so that a retry is acknowledged without a write.
- Relay: rows pushed while others wait share their deadline.
- Row effects: a row whose line a failed catch-up left behind is spoken again when it is
  pushed again. A say whose line is read before its own push arrives is never
  spoken. One is spoken twice if a compaction pushes it again right after a
  reconnect, before the catch-up, or while the session is not live.
- Overrides: one that a person clears while the sidecar is away, or that goes with the
  daemon, stays in force in the module until the next change. Two changes travel on two
  connections and may be applied in the wrong order, and one that is lost is not applied
  until the next change or hello. `requestOverrideSet` takes a line whatever id it was
  for. A one-shot armed while a request waits for its hooks goes with that request
  unbound, and with the next turn too. Facts with the same millisecond are taken in any
  order; those sent right after an id change, before the state file has it, are refused,
  and not sent again until the next.
- Sidecars: two starts that overlap run two sidecars for a while, against "Sidecar
  starts run one at a time, so a session.start and a command.run arriving together
  cannot each start one" (`src/hooks/sidecar.ts:59-60`): the start is over before
  its sidecar is spawned.
- Daemons: `waitDaemonGone` gives up after about 6 s. A daemon that still drains its
  launches then gets the next connect, and as one upgrade is tried, the command goes on
  with the old one; the same if an older client's daemon gets the lock in between. A
  hello on a connection to a daemon on its way out is lost with an error. The decision
  record says a daemon first stops accepting; the code accepts until the end, and
  answers on its connections after the lock is let go of. A start that cannot bind its
  socket or port, and a daemon with its HTTP switched off, are left out.

### Not modelled, and why

- Data: what folds compute of lines, search, dumps, file serving, schemas, texts,
  rendering in the web UI. They keep no state between requests but caches.
- Processes and the outside: launch, restart and kill of sessions, the translate
  helper, updates, HTTP, TLS and origins, the LLM gateway's proxying. The speech
  of a say is a process of its own; it is over when it was handed on.
- In small instances only by theorem: `session_wake` has one stall, so a wake for a newer
  stall of the same session is covered by `WokenOnce` alone.
- Time as a number: the delay of a respawn grows, and a reply may miss the sidecar
  call's deadline; here each may come before or after anything else.
- In the modelled parts: logs and traces, wording of reasons, the change comparison
  and broadcasts of the agents poll, `transcript_read`'s pages, subagents'
  transcripts, files truncated in place under the same inode while a catch-up reads
  them, and inodes used again (the relay's identities are exact); how the host's
  link is watched, the reasons of a not_delivered and texts to subagents
  (`agent.append`); model changes made at the terminal; clients of another
  protocol generation and the lifeline of a test's daemon.
- Several folds and tabs of a session are given the same lines by one loop: one of
  each stands for all.
