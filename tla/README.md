# LumioGame: TLA+ models and proofs

This directory holds TLA+ models of the parts of LumioGame that are stateful and
concurrent: the acceptance launchers of `integration/hello` and `integration/entity-chat`,
the verifiers that judge their evidence, the chat path of the server gameplay assembly with
the browser page that reads it, the account suite with the account server it starts, the
admission credential, and the persistence of the Bomber components. TLC checks them on
small instances; the TLA+ proof system proves the safety properties of every model for every
value of its constants (section 4 names the one case that is only model-checked).

    tlc -config HelloLauncher.cfg HelloLauncherMC      # model-check a module
    tlapm HelloLauncherProofs.tla                      # check the proofs

`PROJECT.json` lists components, runs, mutants (plausible bugs that each property must
catch), the source lines behind every definition, hazards and theorems.

## 1. The system

LumioGame is the game side of Lumio: a gameplay assembly loaded by a server, and the
harnesses that accept a release of server, runtime, bots and web page. Server
executable, Runtime (`WorldManager`, `WireCodec`, `ChatComponent`), account server, bots
and browser are built elsewhere; what this repository does with them is modelled, what
they do inside is not.

| Component | State | Operations | Talks to |
|---|---|---|---|
| Hello launcher (`integration/hello/launcher.mjs`) | `ctx`: processes with pid, exit code and killed flag; rounds; failure; evidence directory | `prepare`, `runRound`, `waitForReadyFile`, `waitExit`, `gracefulKillAll`, `finalize`, `main` | spawns server, static-server, bot; drives a browser; reads their files; writes `shutdown` to their stdin |
| Hello static server | listening socket, `shuttingDown` | `listen`, `shutdown` | ready file, stdin |
| Hello evidence (`verify-evidence.mjs`) | none (pure) | `verifyAuditChain`, `verifyBotTrace`, `verifyResults`, `verifyCrossSource`, `verifyRound`, `compareRounds` | called by the launcher |
| Server chat gameplay (`Chat/*.cs`) | none of its own: the Runtime's inbox, world and outbox | `AdmitEnvelope`, `Admit`, `SetMessage`, `Enqueue*`, `Drain` | network threads in, owner thread of the world, host transport out |
| Chat window page (`entity-chat/web`) | `windowState.lines`, sockets, result | `recordFrame`, `appendAcceptedEvent`, `joinRoom`, `loginAccount` | room and account WebSockets |
| Bomber components (`Bomber/Contracts`) | the Sync fields | generated `WriteField`, `CapturePersist`, `RestorePersist` | the Runtime's snapshots |
| Entity-chat launcher (`integration/entity-chat/launcher.mjs`, `scenarios.mjs`) | replay process and its exit promise, `abort`, observation, static server, round and pack directories | `main`, `runPack`, `runOneRound`, `spawnReplay`, `observeRound`, `waitForRoom`, `startStaticServer`, `runPlaywrightBrowser` | spawns `lumio-entity-chat-replay` and the static server; connects to the room; drives a browser; reads and completes the logs |
| Entity-chat oracle (`verify-evidence.mjs`) | none (pure) | `verifyRunFromLogs`, `compareRuns`, `verifyEvidenceDir` | called by the launcher and by hand on kept directories |
| Account suite (`Lumio.Game.EntityChat.Suite`, `AccountServerProcess`) | account server process, evidence directory | `RunAsync`, `StartAsync`, `DisposeAsync`, `LoginOrRegisterAsync` | starts the account server, reads its stdout and stderr, logs in, kills it |
| Admission credential (`AdmissionCredentialVerifier`, `LumioBinReader`) | offset of the reader | `TryVerify`, `TryDecode`, `TryReadAscii` | called with bytes of the wire |
| Spec lint (`.spec/tools`) | none | one pass over documents | - |

What is hard here:

* The launcher is a single event loop, but its processes are not: they exit, hang,
  ignore `shutdown` or survive `taskkill` at any await, and the loop learns of an exit
  only through an event. Its verdict must rest on evidence nobody writes any more.
* The entity-chat launcher runs two tasks at once: one waits for the replay to exit, the
  other looks for its room, starts a static server and drives a browser. Either may end
  first, and the round is judged by logs both have written.
* Failures leave runRound in the middle; cleanup has to reach every process, and the
  manifest must be the last word on the log it hashes.
* Chat inputs are admitted on network threads and applied later, in a Tick of the owner
  thread; entities disappear and connections are replaced between admission and
  application, and the host may admit an envelope late, twice or out of order; `SetMessage` is called
  directly and only the owner-thread check keeps two callers apart.
* A page that joins again keeps its old socket, whose late frames land in the same
  window.
* The account server may say anything, fall silent, crash or block on a pipe nobody reads,
  while the suite waits for a ready line, an answer or its end.
* Evidence is written by several processes and judged later: entries may be lost, doubled,
  mangled or out of order, and a server that only echoes must not pass.
* A crash between snapshots loses what capture and restore do not carry.

What makes each component correct:

* launcher: SUCCESS only for a run whose rounds were all accepted, on final evidence;
  no two rounds at once; every process accounted for; every run ends;
* entity-chat launcher: exit code 0 only if in every round the browser heard all of the
  chat of a replay of this run; a replay and a static server never outlive their round;
  what was judged is what is kept;
* entity-chat oracle: accepts a complete record, and only if its independent logs tell
  the truth;
* chat: component and event agree, nothing is written to a destroyed entity, a sender's
  inputs are spoken in its own order and at most once, an accepted call ends in an event, a
  result or an error, the room is an append-only log for every reader, no reader that stayed
  connected misses an event;
* persistence: what was captured is what is restored;
* hello evidence: accepts what a sound server wrote, rejects an echo, a forgotten command
  and a record of something no tick committed;
* account suite: every run ends; exit code and evidence files agree; no account server is
  left behind; a verdict that was written stands;
* admission credential: reads only what is laid out as the writer lays it out, accepts only
  fields that were signed for admission, and accepts what arrives as it was issued.

## 2. Modules

| Module | Models | How it corresponds to the code |
|---|---|---|
| `AcceptanceGate` | the promise of the launcher | outcomes of the rounds, manifest, exit code; nothing else |
| `HelloLauncher` | `launcher.mjs` with its processes | `pc` is the await the event loop is in, each action what runs between two awaits; `os` is a process as the system sees it, `exitCode` what the `exit` event told the launcher; a ready file is absent, stale or fresh; evidence is a count of writes |
| `HelloLauncherMC` | TLC instance | - |
| `HelloLauncherProofs` | theorems about `HelloLauncher` | inductive invariant, refinement of `AcceptanceGate` |
| `RoomLog` | the promise of a chat room | an append-only log and windows over it |
| `ChatRoom` | `ChatSetMessageSystem`, `RuntimeDrainConsumer`, the page | one action per entry point; the Runtime's `Tick`, `SendMessage` (two steps) and `DrainOutbox` are external actions, modelled from how they are called and what the tests observe of them; `bound` and `expected` are the world's generation and next sequence of each entity, `outbox` what the host has not been told yet; frames travel per socket in order |
| `ChatRoomProofs` | theorems about `ChatRoom` | inductive invariant, refinement of `RoomLog` |
| `EvidenceGate` | the promise of the entity-chat launcher | one judgement per round, in order, never changed; the exit code |
| `EntityChatLauncher` | `launcher.mjs`, `runPlaywrightBrowser` and the static server | two program counters, `main` (`main`, `runPack`, `runOneRound`) and `obs` (the awaits of `observeRound`); `replay` is the process as the system sees it, `exitSeen` the resolved exit promise, which is also `abort.done`; a round's logs are what replay and launcher wrote to its directories |
| `EntityChatLauncherMC` | TLC instance | symmetry of what is said |
| `EntityChatLauncherProofs` | theorems about `EntityChatLauncher` | inductive invariant, refinement of `EvidenceGate` |
| `EntityChatOracle` | `verifyRunFromLogs`, `compareRuns` | the state is the logs; the oracle's checks are operators, evaluated on every state of logs that grow, lose, repeat or mangle entries |
| `EntityChatRecords` | the other checks of `verifyRunFromLogs` | extends `EntityChatOracle` by the records of host, account, census, queries, tick and scenarios 7 to 10, which two processes of the replay write to files of their own |
| `EntityChatRecordsMC` | TLC instance | symmetry of senders |
| `EntityChatRecordsProofs` | theorems about `EntityChatOracle` and `EntityChatRecords` | inductive invariants of the chat's logs and of the records |
| `HelloEvidence` | `verifyRound`, `compareRounds` of hello | the checks are operators on the server's audit, the bot's trace and the results; a server and two clients that may misbehave write them |
| `HelloEvidenceMC` | TLC instance | scopes of behaviours |
| `HelloEvidenceProofs` | theorems about `HelloEvidence` | inductive invariants for any number of commands |
| `AccountSuite` | `EntityChatSuite`, `AccountServerProcess`, `AccountLoginClient`, `Program` | `pc` is the await of the run; `pipe` holds what the server wrote and nobody read; killing, dying and the two deadlines are steps of their own |
| `AccountSuiteProofs` | theorems about `AccountSuite` | inductive invariant |
| `AdmissionCredential` | `TryVerify`, `LumioBinReader` | a state is one call; the reader takes the fields in order, then the verifier's checks follow |
| `AdmissionCredentialMC` | TLC instance | names as byte sequences |
| `AdmissionCredentialProofs` | theorems about `AdmissionCredential` | inductive invariant |
| `BomberPersist` | generated capture and restore | one function from field ids to values; a restart loses the world, restore reads the last snapshot by field id |
| `BomberPersistProofs` | theorems about `BomberPersist` | inductive invariant |

Abstractions that matter:

* `HelloLauncher`: contents of files are left out; the verification of a round, the
  comparison of rounds, the browser and the process scan return an arbitrary result.
  There is no clock, so a deadline may pass at every poll. `prepare` either finds all
  artifacts or fails. Killing a process is best effort and may fail. Browser closing is
  part of the step before. A rejected or crashed launcher is `pc = "crashed"`. A `spawn`
  that throws at once (caught by `runRound`) is left out: it fails the round like a process
  that never becomes ready. Of the files of an earlier run only ready files are modelled.
* `ChatRoom`: a rejected call changes nothing and is a stutter. A message is a value and
  a text a member of a small set; "too long" is a property of the text. The model starts
  when `WorldManager` has its owner thread. `messageId` and `roomSequence` are one number,
  since the Runtime hands them out together. A frame carries one event, and a page ignores
  error frames. A connection id and its generation are one number. Of the Tick the model
  assumes what `RuntimeCodecBoundaryTests` show: an admitted input is spoken only if its
  entity is live, its generation is the one the host's control adapter answers (else
  `session_closed`) and its sequence is the next one (else `bad_envelope`); otherwise its
  error is in the next drained batch. A second input of a sender in one Tick may be refused
  or not, and on a new generation the world may count from 1 or go on.
* `EntityChatLauncher`: the chat of a round is a counter, and what a page received is an
  interval of it. The oracle is applied to three facts about a round's logs: how many
  events the Runtime's log has, which events the browser's network record has, and `rest`,
  which is "bad" if any other check fails and otherwise what `compareRuns` compares. The
  network record is the one the page keeps, to which `runPlaywrightBrowser` falls back. Ports
  and sockets of probes are left out, as is the merge of observations into
  `evidence.json`: no verdict reads either. The room, the replay's logs,
  its report and its exit are external.
* `EntityChatOracle`: the checks of single records are one condition, `facts`, which
  `EntityChatRecords` defines for the first round. Each sender has one text.
* `EntityChatRecords`: a record keeps the fields the oracle compares. Records and chat are
  checked apart, so all records come first; a replay deviates in at most one scenario. Left
  out, and only able to refuse more: the cadence of `utteranceTicks` (502-505), `messageType`
  and `mappingId` (506-511), `snapshotSha256` (541-543), the scenario number of a deferred
  record (567) and the `mvp-host` record (404-407).
* `HelloEvidence`: `tickId` and `revision` are handed out together and are one number; a
  latency is too large or not; a role is also the name of its session. Faults of a server
  and of the files are counted; damage hits the entry written last, which is any entry
  sooner or later. Left out, and only able to refuse more: `errors` (284, 306), `role` (281) and
  `payloadSha` (287) of the results, the missing vocabulary and the hash example of the
  contract (367-371, 391-394).
* `AccountSuite`: the port pin and the contents of messages are left out. A pipe holds a
  number of lines before its writer blocks. The account server is external. `HasExited` and
  `Kill` are one step: what `Kill` throws for a server that ended in between is caught, so
  the outcome is that of a server that had ended. The write of a verdict may fail; that of a
  blocked run's evidence (`WriteBlockedAsync`) does not, since nothing would be left to say.
* `AdmissionCredential`: numbers are one byte wide, so that the sign of a length and its
  excess over the rest are both within reach; base64url is left out and Ed25519 is "these
  bytes were signed, in this domain, with this key". The layout of a payload is the account
  server's, known here from `TryDecode` alone; the nonce in it is read and dropped. The
  exception a slice outside its buffer would raise is not modelled.
* `BomberPersist`: `CaptureSync` and replication are Runtime plumbing and left out.

## 3. Runs

| Run | Bounds | Shows |
|---|---|---|
| `HelloLauncher` | `Rounds = 2` (as in the code), one process write per round beside results and flush; about 630 000 states | type invariant; an accepted round rests on final evidence (`AcceptedRoundIsFinal`); rounds never overlap; ports come from fresh ready files; no living process is forgotten; the manifest's hash of the log is final; the launcher implements `AcceptanceGate`; every run ends |
| `HelloLauncherCleanup` | same | **violated**: an unhandled `error` event ends the launcher without cleanup |
| `HelloEvidence` | three scopes: one round with one command a side and two faults; two commands a side and one fault, so that a tick may hold several; two rounds and one fault; about 2 200 000 states | what an honest server writes is accepted (`HonestIsAccepted`); an echo is not (`EchoIsRejected`); no accepted round contains a record that no tick committed or forgets a command (`AcceptedIsCommitted`, with two faults only for one command a side); rounds of one command a side that compare equal committed the same commands in the same ticks |
| `ChatRoom` | 2 entities, a short text and a long one, 2 threads, 3 calls, 2 sequence numbers, 2 generations, 1 page with 2 sockets; about 514 000 states | component matches the last event; nothing is written to a destroyed entity; a sender's inputs are spoken in its order, each at most once (`SpokenInOrder`); a page on its first socket misses nothing; events and windows implement `RoomLog`; every accepted call ends in an event, a result or an error the host gets (`AcceptedIsAnswered`) |
| `EntityChatLauncher` | `Packs = 1`, two events per round, two ways the rounds may speak (symmetric); about 3 900 000 states | exit code 0 is witnessed by the browser in every round, also in a reused directory; replay and static server stay in their round; judged logs are final and the three verdicts agree; `EvidenceGate` is implemented |
| `EntityChatLauncherLive` | one event; about 350 000 states | the observation of a round ends whatever the replay does; the launcher ends if the replay does |
| `EntityChatOracle` (module `EntityChatRecordsMC`) | two bots, one deviation of the replay, two faults in all; two events per round (a room may say three), two senders, interchangeable; the chat follows sound records only and the second round a faultless first one; about 700 000 states | accepted chat logs are true and complete, faultless ones are accepted; rounds that compare equal had the same senders say the same texts; accepted records happened (`AcceptedHappened`), a run without deviation is accepted, one that ends early or loses a record is not (`LossIsNoticed`) |
| `EntityChatOracleIdentity` | two rounds, two ticks | **violated**: rounds that differ in order or ticks compare equal |
| `AccountSuite` | two accounts, pipes of two lines; about 1 720 000 states | exit code and evidence agree; no account server is left behind; a written verdict stands; every run ends |
| `AdmissionCredential` | two keys, four names, times 0..2, two nonces, every credential with at most one byte changed, cut off or added; about 690 000 states | bytes that are decoded are laid out as the writer would lay out the fields read (`DecodedIsEncoded`); what is accepted was signed, field for field, for admission and in time (`AcceptedAsSigned`); what arrives as issued is accepted up to its last second |
| `BomberPersist` | values 0 and 1, two field writes in all; about 2 500 states | the ulong fields survive a restart |
| `BomberPersistInts` | same | **violated**: the int fields come back as 0 |

The type invariants of `ChatRoom`, `EntityChatLauncher`, `AccountSuite` and `BomberPersist`
are proved (section 4) and not part of a run.

Why the bounds are enough. Two rounds are what the code runs, and the smallest number in which a
round can be disturbed by another; the proofs cover the rest. One write beside the result and
the flush suffices for evidence to change after it was judged. Three chat calls are an input, an
expiry or a `SetMessage` that overtakes it, and a later one; two sequence numbers and two
generations are the smallest numbers at which an input can be repeated, out of order or of a
connection that was replaced; two sockets are the old and the new one. One pack has the two rounds that are compared; a second pack repeats the first on its own
directories. Two events are the smallest number at which a page can join too late and still
receive something, and a third one in the oracle's rooms is the smallest surplus; three equal
losses in all three logs would pass the oracle, which is why it is checked for two. Two bots let
one rebind while the other is expired. In `HelloEvidence` one command a side is the scenario of
the code; two show what the order of commands and ticks does; two faults are a misbehaving
server and a damaged file, or damage in two files. They are tried with one command a side only:
of the last of two commands both the server and its audit may lose all trace, and such a round
is accepted. A pipe of two lines holds a ready line behind another one and can be full. Two
field writes are one before and one after a snapshot, on any two of the 24 fields.

Deadlock is not checked where the system may stop: a launcher that has exited, a chat
room whose calls are used up, logs that are complete.

Fairness. `HelloLauncher` assumes weak fairness of the launcher only: each of its waits
on a process has a deadline or is a fixed sleep, and Playwright has deadlines of its own;
the PowerShell process scan in `checkResiduals` has none and is assumed to answer. Nothing
is assumed of the processes. `EntityChatLauncher` assumes that the event loop serves both tasks and
every exit event, and that time passes, so that `waitForRoom`'s deadline is reached; every
other await of `observeRound` has a timeout of its own, in Playwright or in the page
(`joinRoom` gives up after 20 s). The replay's exit is awaited without a deadline, so
`LauncherEnds` is stated under the condition that a replay that runs also ends; nothing
else is assumed of it. `ChatRoom` assumes that the host goes on calling Tick and
Drain on the owner thread; callers, sockets and other threads may stop at any point.
`AccountSuite` assumes that the suite goes on when it can and sees its token, that the ten
minutes of `Program.Main` pass, and that a killed process dies. Of the account server nothing
else is assumed: a login need not be answered, and a line need not come, before the token.

### Divergences found

1. `launcher.mjs:19` and the README of `integration/hello` promise full cleanup whichever
   step fails. `track` only listens to `exit`; a spawn that fails or a broken stdin pipe
   raises an `error` event nobody handles, and the launcher is gone with its processes
   alive (`HelloLauncherCleanup`). `rmSync` outside the `try` of `runRound` has the same
   effect.
2. Every field of the Bomber components is declared `[Persist]`, but the generated
   capture and restore only carry `ulong` fields (`BomberPersistInts`).
3. The README of `integration/entity-chat` says that `compareRuns` compares events and ticks
   value by value, with no multiset and no comparison of lengths only; the code sorts
   `sender:text` pairs and compares the number of ticks (`EntityChatOracleIdentity`).

Observations the models made that are no run of their own:

* `ChatOperationResult.Fatal` is documented as a fail-stop after which no further writes
  commit; in this repository `SetMessage` only returns the value.
* hello `verify-evidence.mjs:167` rejects a delta routed to its own sender, not one routed to
  a third session, which the comment at line 104 and the README ask for. A tick with two
  commands of one side is rejected, since their records do not increase in `tickId`; the
  first tick after an ingress must be the one that carries it; an audited delta without an
  ingress is accepted; two faults together can hide an echo. With two commands a side, which the
  hello scenario does not send, `compareRounds` looks at the results only: a trace may tell of a
  command that the results lost; and with two faults the last command may be forgotten unseen.
* entity-chat `verify-evidence.mjs:551` accepts any `superseded` record, whichever connection
  it names, and lines 559 to 561 compare the ids of an expiry only if both can be read. `findKind`
  takes the first record in the order of file names, so a snapshot of process B whose file
  sorts first makes an honest run fail (`CompleteRunIsAccepted` excludes it).
* `AccountServerProcess` looks at its 30 s deadline between two lines only, so a silent
  server is waited for until the ten minutes are over; after the ready line nobody reads
  its pipes. `Kill` may throw past `TryKill`; the exception then replaces a verdict by
  "blocked". A reused directory may keep the `blocked.txt` of an earlier run.

## 4. Proofs

| Module | Holds for every | Theorems |
|---|---|---|
| `HelloLauncherProofs` | `Rounds >= 1`, `MaxWrites` | `TypeCorrect`, `AcceptedFinal`, `NoOverlap`, `FreshPorts`, `NoneForgotten`, `LogIsSealed`, `Refinement` |
| `EntityChatLauncherProofs` | `Packs`, `Events`, `Speech` | `TypeCorrect`, `Witnessed`, `ReplayInRound`, `StaticReleased`, `LogsAreFinal`, `AllManifestsAgree`, `Refinement` |
| `ChatRoomProofs` | entities, pages, threads, texts, calls, sockets | `TypeCorrect`, `ComponentMatches`, `NothingIsMissing`, `DestroyedIsFinal`, `InputsInOrder`, `Refinement` |
| `AccountSuiteProofs` | accounts, `PipeSize` | `TypeCorrect`, `ExitIsEvidence`, `NobodyLeft`, `VerdictIsFinal` |
| `AdmissionCredentialProofs` | keys, names of any length, `MaxTime` | `Inductive`, `Canonical`, `Genuine`, `IntactPasses` |
| `BomberPersistProofs` | `Value`, `MaxWrites` | `TypeCorrect`, `UlongsSurvive` |
| `EntityChatRecordsProofs` | `Events`, `Bot`, `MaxTick`, `MaxFaults`, one or two `Rounds`, `Bots`, `MaxWrong` | `OracleInvariant`, `AcceptedIsTrueHolds`, `HonestIsAcceptedHolds`, `EqualRunsSaidTheSameHolds`; `RecordsInvariant`, `AcceptedHappenedHolds`, `CompleteRunIsAcceptedHolds`, `LossIsNoticedHolds`; `RunsAreRounds`, `RunsKeepTheOracle` |
| `HelloEvidenceProofs` | `Scopes`: any number of commands and faults | `EvidenceInvariant`, `TypeCorrect`, `EchoIsRejectedHolds`, `AcceptedIsCommittedHolds`; `HonestInvariant`, `HonestIsAcceptedHolds`; `CommittedOnce`, `EqualRoundsCommittedTheSameHolds` |

The only assumptions are the named ones on the constants, which TLC evaluates in the runs. Each
module has an inductive invariant `IInv` (the two about verifiers have several), one lemma per
part that a step preserves it, and theorems that follow from it; a refinement adds that every
step maps to a step of the abstract module or a stutter. Nothing uses fairness.

### Hello launcher

None of its safety invariants is inductive by itself. `IInv` adds what the code relies on
without saying so:

* `ExitsSeen`: an exit code the launcher knows is the one the process ended with, so
  "not seen to exit" includes every living process (this carries `NoneForgotten`);
* `RoundsInOrder` and `Undecided`: rounds before the current one were accepted, later
  ones have no process and no result, and the current one has no result until the
  launcher leaves it;
* `StartOrder`: each process is started once a round, in order, so a start never
  overwrites a process that is known to have exited;
* `Settled`: all processes of an accepted round have been seen to exit with code 0, so
  nobody can write its evidence or be killed any more (with `RoundsInOrder` this gives
  `NoOverlap`);
* `NoStaleReady`, `SurvivorsWereKilled`, `Sealed`, `SuccessIsEarned`: the parts of the
  other invariants that depend on the await the launcher is in.

One lemma per part shows that every step preserves it; `DecideStep`, `StartStep` and
`KillStep` say once where results change, how processes start and what a kill does. The
refinement follows from `IInv`: a result is given to the first undecided round (`Judge`),
the manifest is an `Accept` or a `Reject`, a crash is a `Reject`, all else stutters.

### Entity-chat launcher

The two tasks share `slot`, `abort` and the logs. `IInv` says where each may be while the
other is where it is: `RoundsInOrder` (rounds are judged in order, a pack follows its
second round), `Undecided`, `ReplayGone` (`Promise.all` leaves a round only when its replay
was reaped), `ObserverInRound` (the observer works in its round only; its static server is
released and its page closed when it is done; the frames it hands over are what the page
heard), `NetworkIsHeard` (no directory of a round to come holds network records, so those
that are judged are this run's; with it, `SuccessIsWitnessed` holds in a reused directory)
and `PacksWritten` (manifests say what their rounds' answers say). `Refinement`: a round's
verdict is `Judge`, the exit is `Finish`, all else stutters.

### Chat room

`OnlyOwnerSends` is what the thread check of `SetMessage` is for: no other thread is ever
inside `SendMessage`, so the two halves of it, component write and event, are not
interleaved with another call. `SendsToLive` adds that the owner's call is to a live
entity and that an emit follows its own write; `EventsNumbered` that ids have no gap;
`LastExists` that an entity which spoke has a last event. From these,
`ComponentMatchesLastEvent` is preserved, and `NoWriteAfterDestroy` is `SendsToLive` at the
write. For the pages: everything in flight or shown is a committed event
(`PagesShowEvents`), a window's last line is its newest (`WindowsAscend`, which is why
comparing with the last line is enough), and an unopened socket is empty
(`NothingOnUnopened`). A page on its first socket then always takes the event after its
last line: `NothingMissing`. `SpokenInOrder` needs what the Tick compares an input with: all
that was said of an entity comes before the generation and sequence it awaits next
(`SaidBeforeNext`), also what the owner thread is about to say (`SayingInOrder`). The proof argues about sequences of any length. `EmitEvent`
is `Commit`, `Deliver` is `Show` or shows nothing.

### Account suite

`AnswersInTurn`, `Undecided` and `LeavesWithVerdict` (what `RunAsync` is being left with is
what it wrote, unless `Kill` threw) make `ExitMatchesEvidence` and `NoServerLeft` inductive;
`VerdictStands` follows from `LeavesWithVerdict` at the step that leaves.

### Admission credential

`Consumed` and `FieldsInPlace` say that the reader has consumed the encoding of the fields it
read and nothing else; `Finished` that only a wire without a rest gets another verdict than
malformed. `EncodePositions` finds every field in the writer's output by its position, and
`SameWire` that two wires equal in all positions are equal; together they give `Canonical`:
two wires with the same fields differ in nothing but the nonce. The other way, `IssuedOffset`
says how far the reader has come in a wire that arrived as it was issued, `IssuedRead` that no
field of it is refused and `IssuedFields` that it ends with the fields that were signed. With
`IntactVerdict` (no check fails) this gives `IntactPasses`, and since a good signature means
that the wire is as issued, also `Genuine`.

### Bomber persistence

The captured keys are exactly the `ulong` fields (`KeysAreUlong`); a snapshot holds them as
they were when it was taken (`SnapshotOfTaken`), and a world just created has default fields.

### Entity-chat oracle

The chat. The three logs of a round are judged against each other, the truth is in none of them.
`FaultsCounted` of `IInv` carries the argument: a log that is not exactly the prefix of the room
it is past (`Faithful`) took a fault of its own, so the disturbed logs of both rounds together
are no more than the faults. Two faults cannot disturb all three logs of a round (`ThreeOfTwo`),
and since the logs of an accepted round agree (`AcceptedAgree`) with the one that is left, all
of them are what the room said. From this follow `AcceptedIsTrue` and `EqualRunsSaidTheSame`;
with no fault every log is the room, which is `HonestIsAccepted`.

The records. A replay works off a fixed list of scenarios (`Ideal`) whose records lie in three
files; each invariant says of a different reading what the files hold:

* `LossInv`: without a deviation every record is a copy of one of the scenarios so far, and a
  loss left one scenario without any. `MissingIsRefused` goes through the kinds of records and
  finds the check that needs the missing one; only process B's own snapshot could stand in for
  another, and it cannot either (`LossIsNoticed`).
* `CompleteInv`: without deviation and loss all scenarios so far are recorded, and nothing else
  is (`CompleteRunIsAccepted`).
* `HappenedInv`: some `d` tells which records each scenario left (`Told`), without a deviation
  those it should and with one all but one of them, and faultless files hold exactly these. The
  census counts: one deviation changes a number, two may make up for each other. This is why
  `AcceptedHappened` speaks of `wrong <= 1` there, and of any number of deviations otherwise.

`RunsAreRounds` shows that a replay with its records is a behaviour of the chat's
specification, so the oracle's theorems hold of it as well (`RunsKeepTheOracle`). What
`WellFormed` and the other recursive functions of the model compute is proved from the least
index at which it would be wrong. `NoneAssumption` says that a missing field is none of the
values a field can have.

### Hello evidence

That the verifier refuses a finished round says nothing of a round half written, so the
properties are not inductive: the invariant has to say what a fault has left behind, whatever is
written after it. For `EchoIsRejected` and
`AcceptedIsCommitted`, `IInv` has a part for each number of faults:

* `Sound`, with no fault: no echo, every delta and every received record is that of a committed
  command, a command that was sent waits for a tick or is committed, and one that waits has its
  ingress line after the last tick (`InboxWritten`).
* `Marked`, with at most one: an echo has left `Bad` in the audit, a delta without an earlier
  tick of its number (`Uncovered`) or back to the session of its command (`Echoed`); a record
  nobody committed can then only be received if no audited delta claims it, or the audit is
  `Bad`; a forgotten command has left an ingress that no delta answers (`Unanswered`), or the
  audit is `Bad`. `BadStays` and `UnansweredStays` show that no later line undoes either,
  `BadIsRefused` that the verifier refuses both.

The single fault may be damage to any of the files, so `DamageKeeps` starts from `Sound`.

`HonestIsAccepted` needs the opposite: without faults audit, trace and results say all that
happened and nothing else. `Honest` says of the audit that numbers and ticks ascend
(`IngressCounted`, `TicksAscend`), that an ingress has its delta behind the first tick after it
or still waits (`IngressServed`), and that all of `committed` is routed (`DeltasRouted`,
`CommittedRouted`); of a side that what it received and what is on its way to it are committed
commands of its peer, in order and ahead of those that wait (`InStep` of `Heard`), and of the
bot that its trace tells of the same run (`TraceTrue`). `RoutedInOrder` is the lemma about
`RoutedTo` on which `InStep` rests.

`OnceInv` holds whatever the faults: a command is committed at most once, and not while it
waits. With one command a side there is then one committed record per sender, so what the bot's
trace tells of an accepted round is what the results tell (`ResultsTell`), and the comparison of
results decides (`ComparedRecord`): `EqualRoundsCommittedTheSame`. The attempt to
prove it, and `AcceptedIsCommitted` with two faults, for several commands a side led to the
counterexamples named in section 3, and to the conditions the two properties now have.

### Only model-checked

* `LauncherEnds` of both launchers, `ObservationEnds`, `AcceptedIsAnswered` and `SuiteEnds`:
  liveness under fairness is out of the prover's reach.
* `AcceptedIsCommitted` of `HelloEvidence` with two faults and one command a side:
  `AcceptedIsCommittedHolds` is about one fault and any number of commands. Two marks may
  cover each other, so `Marked` does not carry over; but with one command a side and two faults
  a round has finitely many states, and the scope of one round is all of them (faults happen in
  the last round only, and a first round without faults is what the theorem covers).

## 5. Not modelled, and plan

* Serving files, argument parsing, hashing, cryptography, log wording and Playwright: I/O or
  libraries without state of this code.
* `connectRoomWire` and the account client of `integration/entity-chat`: a late open leaves
  a socket behind, but sockets and the superseded flag only reach `evidence.json`, which no
  verdict reads; a model of them would have no property.
* `bot-credential.mjs` and the C# issuer of bot credentials: one pass over their arguments.
* The ingress bound of 64 and one input per sender and tick are declared in `ChatMapping.cs`
  and enforced by the Runtime, which is not in this repository. The same holds for the time
  before `WorldManager` has an owner thread (`OwnerThread` is null): whether calls can come
  that early is the host's affair.
* A replay that reports BLOCKED after writing complete logs: `evidence.json` says blocked, the
  manifest SUCCESS. That is the design (only the logs decide), so no property forbids it.
* The account login of the chat page: a request and an answer without shared state.
* `CaptureSync` and the replication facade of the Bomber components: Runtime plumbing.
* `spec-lint.mjs`: one pass over documents. `condition-based-waiting-example.ts`: an example in
  a text. The Bomber gameplay rules: documents only, no system implements them yet.

What is left, in this order:

1. `HelloEvidence`: the case of two faults as a theorem, with a mark for every pair of them.
2. The verifiers composed with the launchers: `Verify` of `HelloLauncher` and the `rest` of
   `EntityChatLauncher` are free choices, which is all their own properties need.
