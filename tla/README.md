# remote-exec in TLA+

`remote-exec` is an agent daemon (`rexec-agentd`) that runs commands for
controllers (`rexec`).  A controller enrols once with a single-use join token and
gets a client certificate that carries a role; later calls run over mTLS, are
admitted by role, and destructive ones also by the agent's `policy.yaml`, which
may ask for an approval first.  The modules here model that program from its Go
source, TLC checks them on small instances, and TLAPS proves the main safety
properties for every value of the constants.

All paths below are relative to the repository.

## 1. The system

| component | source | state | operations | what makes it correct |
|---|---|---|---|---|
| token store | `internal/token/token.go` | `tokens.json`, `tokens.json.tmp`, the file lock | `Issue`, `Consume` through `mutate` | a token grants its role once; no issued token is lost; the file can always be decoded; an answer is durable; calls return |
| policy | `internal/policy/policy.go` | none once loaded | `Load`, `Evaluate` | the deny list wins; anything unknown denies |
| approval grants | `internal/policy/grants.go` | a map in the process | `Issue`, `Consume` | one run per approval, for the command it was issued for, in time, in the process that issued it |
| agent server | `internal/agentserver/agentserver.go` | the loaded policy, the grants | `Enroll`, `Identity`, `Info`, `Run`, `Deploy`, `runStream` | a denied command never passes `Deploy`; the exit code is the last message |
| command execution | `internal/execute/execute.go` | one command, two copiers, one mutex | `Run`, `chunkWriter.Write` | one sender on the stream; output in order and complete; the call ends |
| stream consumer, controller flows | `cmd/rexec/controllercmds.go` | none but the credential file | `enroll`, `identity`, `info`, `run`, `deploy`, `consumeStream` | what a process reports is what happened; nobody is asked twice; no approval without consent; processes end |
| authorization | `internal/authz/authz.go` | a constant table | the two interceptors | a method runs only for a role of its rank |
| enrolment | `internal/enroll/enroll.go`, `internal/transport/transport.go` | the CA | `Enroll` | a certificate carries the role of the token it cost |
| controller credential | `internal/clientconfig/clientconfig.go` | `~/.rexec/config.yaml` | `Load`, `Save`, `ClientTLS` | a saved credential is a whole one |
| agent data directory | `cmd/rexec-agentd/agentcmds.go`, `internal/identity/identity.go` | `ca.*`, `server.*`, `agent.id`, `policy.yaml` | `ca init`, `serveAgent` | what is served belongs together; the id is stable |
| service adapter, foreground `serve` | `cmd/rexec-agentd/servicecmds.go`, `main.go` | `cancel`, `done` | `Start`, `Stop`, `status`, `serve` | `Stop` ends the daemon; "running" means serving |
| pki | `internal/pki/pki.go` | none | `NewCA`, `Sign`, `NewCSR`, `LoadCA` | leaves chain to the CA that signed them |

Interactions.  `token new` processes and the daemon share `tokens.json` under
`flock(2)`; inside the daemon every gRPC call is a goroutine of its own, and they
share one `FileStore`, one `Policy` and one `Grants`.  `Deploy` calls the policy,
then the grants, then `runStream`; `runStream` calls `execute.Run`, whose copier
goroutines call back into the stream.  The controller reads that stream in
`consumeStream`.  A `deploy --yes` that is asked sends its request a second time, on
the same connection, to whatever agent process is there by then; without `--yes` the
id is printed, and an operator carries it to another process.

What is hard in it: the read-modify-write of `tokens.json` by several processes
and several goroutines, with a lock that does not separate the goroutines of one
process; files that are rewritten in steps while processes die; approvals that
live in memory while the policy file changes and the daemon restarts; an enrolment
that times out on one side and goes on on the other; two goroutines that share a
gRPC stream with the handler, under flow control, with pipes that descendants of a
command may keep open; and a shutdown that waits for all of it.  `hazards` in
`PROJECT.json` lists them with the line where each bites and the properties that
would notice.

## 2. The modules

| module | models | kind |
|---|---|---|
| `JoinTokens` | the life of a join token | abstract specification |
| `TokenStore` | `internal/token`, step by step | component, implements `JoinTokens` |
| `TokenStoreProofs` | | proofs about `TokenStore` |
| `Policy` | `internal/policy/policy.go` | operators |
| `ApprovalGate` | the life of an approval | abstract specification |
| `DeployGate` | `Run`, `Deploy`, `Grants`, policy loading, shutdown | component, implements `ApprovalGate` |
| `DeployGateProofs` | | proofs about `DeployGate` |
| `Controller` | `exec run` and `exec deploy`, `--yes`, `--approval` | composition over `DeployGate` and `Authz` |
| `ControllerProofs` | | proofs about `Controller`, from those about `DeployGate` |
| `CommandOutput` | what a controller is promised of a command | abstract specification |
| `ExecStream` | `execute.Run`, `runStream`, `consumeStream` | component, implements `CommandOutput` |
| `ExecStreamProofs` | | proofs about `ExecStream` |
| `AgentData` | `ca init`, `agent.id`, `serveAgent`'s loading, the service adapter, `serve` | component |
| `AgentDataProofs` | | proofs about `AgentData` |
| `Authz` | `internal/authz` | operators |
| `Enrollment` | `agent enroll`, `Enroll`, the handlers' way through `Consume`, credentials, mTLS, interceptors | composition over `Authz` |
| `EnrollmentProofs` | | proofs about `Enrollment` |
| `MC*` | | constants for TLC |

`PROJECT.json` maps every definition to the lines it stands for.  In every module a
process or goroutine has a program counter, there is one action per step that
another process, another goroutine or a death can fall between, and variables
marked *history* are not in the code: they record what properties speak of.
Definitions named as *mutants* are plausible slips of the definition below them;
no specification uses them, and each is there to see a property fail.

### TokenStore

`Issue` and `Consume` are `mutate` with a function.  The steps of `mutate` are
`Lock`, `Read`, `IssueFn`/`ConsumeFn`, `OpenTmp`, `WriteTmp`, `Rename`, `Unlock`, with
the ways out `LockFails`, `ReadRefused`, `WriteFails`, `RenameFails`; `Crash` ends a
process between any two of them and leaves the disk as it is.

* A file holds a set of tokens or text that does not decode; the role in a record
  is left to `Enrollment`, its expiry is `expiry[k]`.
* The daemon makes one `FileStore`, so its handlers share one `*flock.Flock`.  Such a
  Flock locks the file against other processes; `Lock` on one that is locked
  already returns at once.  `MayLock` and `Released` say just that.  The library is
  not part of the repository: that a second `Unlock` of a shared Flock does nothing
  is how its documentation has it, and the runs with one handler and the proofs do
  not depend on it.
* An open descriptor keeps the file it was opened on when that file is renamed
  (`fd`, `Renamed`), and a write over a longer text leaves its end (`Overlay`): this
  is what two writers of one `tokens.json.tmp` do to each other.
* `read` tests `len(data) == 0` before `err`, so `ReadFails` goes on with an empty map.

### Policy and DeployGate

`Policy` gives `Load` and `Evaluate` over the file as the code sees it: no file, a
file that does not load, or a policy with a mode (a known one, none, or another
string) and two lists.  `DeployGate` has the file, the process (`down`, `up`,
`draining` in `GracefulStop`), the policy it loaded, the table of approvals, and any
number of calls.  A `Run` goes straight to `Start`; a `Deploy` with an id takes
`ConsumeGrant`, which removes the approval whatever it answers and does not ask the
policy again; one without takes `Decide`, and from there `Start`, `IssueGrant` and
`SendApproval`, or returns.  Controllers present ids they were given, or strings
nobody issued.  The operator edits `policy.yaml` at any time; only `Boot` reads it.
Calls have passed the interceptor (see `Enrollment`).  A request has no argument list:
nothing in the gate looks at it, a grant is for the command alone.

### Controller

A `rexec` process per call slot of `DeployGate`, whose actions it reuses whole: `Serve`
and `Exits` are the steps of the handler together with what `consumeStream` will get
of them in `reply`.  `Invoke` is a command line whose request gets past the
interceptor (`Intercept` of `Authz`), `Refused` one that reaches no handler.  The reply
ends the process (`Report`, `AskOperator`) or, with `--yes`, makes it send again
(`AutoApprove`, `AutoApproveFails`).  `Disconnect` loses the connection and what is on
it while the handler goes on, `AgentDies` fails every stream that has no answer yet.
An operator knows the ids that were printed and may make one up.  `ran` counts the
commands started for a process, `procs` the processes.

### ExecStream

One call that was let through.  The command writes numbered data to two bounded
pipes, may leave a descendant that holds them, and exits; a copier per output reads
what is there or part of it, takes the mutex of `safeEmit`, and sends; the stream
holds a bounded number of messages and may break for good, which also cancels the
context and kills the command but not its descendant.  `Run` returns when command
and copiers are done: a non-zero code hides a copier's error (`RunReturnsCode`), a
zero one does not (`RunReturnsError`).  The exit code is sent last, as an int32
(`Int32`: `Half` stands for 2^31, and a code of a Windows process may be any uint32).
`consumeStream` writes what it gets to the terminal and discards the error of that
write: any part of a chunk may be missing there, and the next one follows all the same
(`RecvOutput`, which notes the output in `failed`).  It remembers the code and reports
it at the end of the stream.  `CommandOutput` says what all this is for, without pipes,
copiers or stream: codes in `Faithful` are reported as they are, any other as some
failure, and a gap in an output only follows a refusal of the screen.

### AgentData

The four files of `ca init` and `agent.id`, each written in place by `os.WriteFile`
(opened and emptied, then written), in the order of a Go map within each call of
`writeFiles`.  A file holds the number of the run of `ca init` it came from, so files
belong together when the numbers agree.  `serveAgent` reads them one by one, checks
what `LoadCA` and `tls.X509KeyPair` check and no more, and serves.  Under the service
manager (`mode` is "service") `program.Start` does not wait for it, its error ends the
goroutine and not the process, and `program.Stop` waits for it to have ended; in the
foreground ("serve") its end is that of the process.  Any process may die, and any
file operation fail, at every step; an `os.Stat` of `ca.key` that fails does not end
`ca init` but counts as "no CA" (`StatFails`; `unseen` records that there was one).
`Replaces` is a run that may write over a CA: forced, or blind.  `careful`, chosen at the start and kept, says
whether the operator runs one command at a time: the file properties are promised to
a careful operator only, since nothing locks the directory.

### Authz and Enrollment

`Authz` is the table, the ranks and the decision of the interceptors.  `Enrollment`
puts it together with tokens, CAs and credential files: a controller calls `Enroll`
with a token, the handler consumes it, signs the role of the token into
a certificate and answers; the answer may be lost, the controller may stop waiting
while the handler goes on, and either may die.  `Save` rewrites the credential in
place: emptied first, and with the end of another credential left in it when two
processes save at once.  Later commands load it, dial, and call; `agent identity` loads
it twice, and an emptied file loads as a credential without a pin.  A certificate is the record of
what was signed and cryptography is ideal; a CA and its server certificate are one
number, as `AgentData` shows they are when no `ca init` that replaced a CA was cut
short.

`Consume` is there in the steps between which the handlers of one daemon overlap, since
their shared Flock lets all of them in (`tokens_shared_flock`), and an atomic step of
`JoinTokens` would not be the code: `ReadStore` (lock, and read, which may fail and give
an empty store), `RewriteStore` (the token is gone and the store written), `Grant`, each
with `HandlerEnds` as the way out that unlocks, whoever else is inside.  `overlapped`
records that two handlers were inside together.  Two things are coarser than in
`TokenStore`.  `token new` is one step: it holds a Flock of its own, which keeps it apart
from the daemon, but not from a handler that is still inside after another one has
unlocked.  The steps of the two may then lose a token or bring one back; that takes two
handlers that have met, and of that case no property says more than that a role was
issued and granted, which neither step changes.  And
a `tokens.json.tmp` torn by two overlapping writers is not there: it leads to refusals,
which `HandlerEnds` has anyway.

## 3. The runs

All passing runs check deadlock except `exec`, where a finished call has nothing
left to do.

| run | shows |
|---|---|
| `tokens` | `SingleUse`, `NoTokenLost`, `StoreDecodable`, `AnswerDurable` and `ImplementsJoinTokens` for one handler and two `token new`, with failing locks and writes and crashes |
| `tokens_live` | `CallReturns` with two handlers on one Flock and every fault |
| `gate` | `DenialHolds`, `AskedAndApproved`, `OneRunPerApproval`, `InTime`, `ImplementsApprovalGate` for two calls and two ids |
| `controller` | `NeverAsksTwice`, `OutcomeIsTrue`, `ThreeChecks`, `CommandEnds`, `DrainEnds` for two processes on an agent that is edited, restarted and killed |
| `exec` | `OneSender`, `PrintedInOrder`, `ReportIsTrue`, `ImplementsCommandOutput`, `CallEnds` |
| `data` | `IdStable`, `OverwriteForced`, `PrintedIsWhole`, `VerifiableUnlessForced`, with deaths at every step and a `Stat` that may fail; `StopReturns`, also while `ca init` runs beside the daemon |
| `enrollment` | `RoleEarned`, `ServedByOwnCA`, `OldCredentialKept`, `TwoLoadsOnePin`, also with two handlers in the token store together |

Five runs end in a violation, each of something the repository says of itself:

* `tokens_shared_flock`, `SingleUse`: two Enroll handlers of one daemon are both inside
  `mutate`, read the same token, and both return its role.  The store is described
  as single-use (`internal/token/token.go:31`).
* `tokens_failed_read`, `NoTokenLost`: a failing read is taken for an empty store and
  written back over every token.
* `data_forced_death`, `AgentVerifiable`: a `ca init --force` that dies half-way leaves
  the files of two CAs, and the daemon serves with them.
* `data_status`, `RunningServes`: under the service manager `serveAgent` fails and the
  process stays, so `service status` says "running" of an agent that answers nobody,
  and the manager has nothing to restart.  `docs/ARCHITECTURE.md:108` has it serve
  "until ctx cancelled".
* `enrollment_pin`, `PinReasserted`: `info`, `run` and `deploy` never compare the pinned
  fingerprint, though `README.md:53` says "every call re-asserts it".  The same model has a
  second way to a result without a comparison, which this run does not tell apart:
  `agent identity`, the one command that does compare, loads the credential while a
  concurrent `Save` has emptied it, has no pin to compare, connects with the credential
  written next, and prints "(pin OK)" all the same.

What the properties say, in the words of their comments, is in the modules.  Some are
worth a remark.  `DenialHolds` is about approved calls, which skip `Evaluate`: it holds
because a process never changes its policy and no approval outlives its process, and
the mutant that keeps the table across restarts breaks it.  `NeverAsksTwice` is about
the two sends of `--yes`: the agent may have become another process with another policy
in between, and what it then answers is an error, never another question.
`OutcomeIsTrue` says nothing of a process that ends with an error, because the code
cannot: the command may have run (`Disconnect`), and `OneRunPerApproval` is what makes
a retry with the same id harmless.  `ReportIsTrue` holds
although `Run` may hide lost output behind an exit code: the stream that lost the
output is broken, so the code never arrives.  It does not say more than the code keeps:
a code of 2^31 or more arrives as another number, though never as success, and what the
terminal refused is not noticed.  `RoleEarned` has the role of a served call go back to a
token issued for it in every case, and that token granted once as long as no two handlers
met in `mutate`; without that condition it is `tokens_shared_flock`.
`VerifiableUnlessForced` holds for runs that replace no CA although they die anywhere:
such a run finds no `ca.key`, and then no daemon can start until its last file is whole.
`OverwriteForced` names the two ways a CA is replaced, `--force` and a `Stat` that failed
on a `ca.key` that was there.  The second is a weakness of `agentcmds.go:75`, where only a
`Stat` without an error asks for `--force`: the property with `force[p]` in place of
`Replaces(p)` does not hold.

### Bounds

* Two processes or calls of each kind, since every property is about what two of them
  do to each other or about what one leaves to the next; `tokens` has three threads.
* Two tokens, two ids, two CAs: one that is used and one that must not be affected.
  Ids of the model run out, and then `IssueFails` is what is left; it is there anyway
  for a failing `randID`.
* `MaxTime` 2 with lifetimes 0 and 1 (`tokens`) or `TTL` 1 (`gate`): issued, at the very
  instant of expiry, and after it, at an early and at a late clock.
* `gate` has four policy files (the example of the docs, which asks, allows and
  denies; one that asks about everything; one that allows what it does not deny; no
  file), which give all decisions and all changes of decision at a restart.  Modes the code does not know are left to the
  proofs, which are for any files.
* `controller`: two processes that run at the same time or one after the other
  (`MaxProcs` 2), one command, two ids (one more than a process is given, so that an
  agent could ask twice), a policy that asks and one without a mode, which denies,
  `TTL` 0 and `MaxTime` 1: an approval expires between two sends.  More processes
  multiply the states and meet no new case: what they leave to each other is a
  printed id and an agent that was restarted.
* `Half` 4, with the codes 0, 3 and 4: a success, the last code an int32 holds and the
  first it does not.
* `enrollment` has a low and a high role; `enrollment_pin` and the proofs also have
  strings that are no role.  `wins` stops at 2.
* `MaxWrites` 3 against `PipeCap` 2 and `Window` 2: pipes and stream fill up.
* `WinCap` and `RunCap` 2: history counters stop at the first value that is wrong.
* `data`: three runs of `ca init`: one to leave something, one to take it up, one to
  replace it.  The runs are one after the other; the daemon is the other process.
* Symmetry is used for processes, calls, tokens and ids in runs that check safety
  only: nothing orders them or names one of them.

### Fairness

* `TokenStore`: a thread that holds the lock keeps running (weak fairness of `Advance`
  and of the two functions); one that waits for it gets it in the end (strong
  fairness of `Lock`: `flock(2)` wakes its waiters at each release and every holder is
  short).  Nothing forces `Lock` to fail, or a process to call again.
* `Controller`: handlers run, `GracefulStop` returns when they have, and a process reads
  its stream.  That commands end (`Exits`) is an assumption on the commands: the code
  sets no limit, and without it `DrainEnds` and `CommandEnds` fail on a command that
  never ends.  Nothing forces the agent to be started again or a connection to break.
* `ExecStream`: the goroutines run, a mutex released again and again is had in the end,
  the context is watched, the controller reads its stream, and a descendant does not
  hold the pipes for ever.  The last one is again about commands: the code sets no
  `WaitDelay`, and a descendant that stays keeps the handler for as long; `CallEnds` says
  so in its comment and does not cover that case.  The command itself need not end; `CallEnds` asks for it, or for a
  broken stream.
* `AgentData`: `serveAgent` runs (its drain is that of `Controller`), and the process
  ends once it may (`Stop` returns when `done` is closed, `serve` with `serveAgent`).

## 4. The proofs

TLAPS proves the following for every value of the constants that satisfies the
named assumptions.

`TokenStoreProofs` (from `ConstantsAssumption`: the kinds of constants are disjoint):

* `TypeCorrect`, without further assumptions.
* With `OneHandler` (the daemon serves one Enroll at a time, any number of `token new`
  processes, every fault, reads included): `SingleUseHolds`, `StoreDecodableHolds`,
  `AnswerDurableHolds`.
* With `ReadsWork` besides: `NoTokenLostHolds`, `ImplementsJoinTokensHolds`.

Both assumptions are needed: a violating run shows what happens without each.  None
of the properties is inductive.  `StoreInv` adds that a thread inside `mutate` holds the
lock (`LockHeld`), so that it is alone there; that `tokens.json.tmp` is the writer's
own, emptied when it opened it, whatever a crash had left (`TmpOwned`); that tokens
being issued are in no file (`Fresh`); what the map in hand has to do with the file
(`Maps`); and that a spent token is out of the file and granted once at most
(`Spending`).  `KeepInv` sharpens `Maps` to equality, which a failed read would break.
The refinement maps a token to *spent*, *live* or *unissued* by the history and the
file: `Rename` is `Issue` or `Spend`, the `Unlock` that returns a role is `Grant`, all
else stutters.

`DeployGateProofs` (from `PolicyAssumption` and `GateAssumption`: sentinels differ, files
are policies, the clock is a natural number): `TypeCorrect`, `DenialAlwaysHolds`,
`AlwaysAskedAndApproved`, `AlwaysOneRunPerApproval`, `AlwaysInTime`,
`ImplementsApprovalGateHolds`, for any number of calls, ids and files.  `GateInv` adds
what a request is at each step (`CallsOK`); that the table holds approvals of this
process as they were issued, for commands its policy asks about (`TableOK`), which is
what lets an approved call skip the policy; why each call is where it is
(`ReasonsOK`); and that two calls never hold one approval (`OnceOK`).  A crash or a
drain maps to the lapse of every approval at once.

`ControllerProofs` (from `ControllerAssumption` besides: certificates carry known roles,
an id is not the name of another answer; any number of processes, ids, files and
certificates):

* `ControllerImplementsGate`: every step of a controller process is a step of `DeployGate`
  or leaves the agent alone, so `GateHoldsHere` has the gate's theorems for the composition.
  This needs an invariant of the processes: `AutoApprove` sends an id out of a reply, and
  it is a request of the gate because that reply was given by it.
* `CTypeCorrect`, `NeverAsksTwiceHolds`, `OutcomeIsTrueHolds`, `ThreeChecksHold`.  `CInv` is
  `GateInv` with `SlotsOK` (the request of a call is made of the invocation of its slot,
  which passed the interceptor, even when the process is gone), `AskedOnce` (a second
  send has an id, and only a call without one gets to `IssueGrant`) and `RanOK` (what was
  started by each step and in each outcome).  `ThreeChecks` follows from `SlotsOK` and the
  gate's `ReasonsOK`.

`ExecStreamProofs` (from `ExecAssumption`: the bounds are natural numbers, codes are those
of an unsigned integer of twice `Half` values; any number of writes, any pipe and window,
any width and codes): `TypeCorrect`,
`OneSenderHolds`, `PrintedInOrderHolds`, `ReportIsTrueHolds`, `ImplementsCommandOutputHolds`.
Nothing in the state says that the chunks on the wire fit together, so the invariant has
to.  `CopiersOK` says what each copier has in hand: what was read and not sent, alone
under the mutex.  `InTransit` says there are *cuts*: one number per position of the wire,
from what is shown to what was sent, such that each message takes its output from one
cut to the next and the other output nowhere.  A send adds a cut at the end, a receive
drops the first, and the lemmas on `Data` (`DataJoin`) turn the first cut into what is
printed; of an output the terminal refused some of, what is printed is increasing and
below the first cut, which is what keeps a later chunk in order behind a gap.  `CallOK` keeps the exit code last on the wire, after both copiers.  With an empty wire
the first cut is the last, and copiers that are done have sent everything: that is
`ReportIsTrue`, and `RecvStatus` as `ReportCode` of `CommandOutput`.  A received chunk is
`Show`, or `ShowWithGaps` once the terminal has refused some, the end of a descendant `FamilyEnds`, pipes, copiers and handler stutter.

`AgentDataProofs` (from `DataAssumption`: file contents are told apart, the daemon is not
a `ca init`; any number of processes, ids and runs): `TypeCorrect`, `IdStableHolds`,
`PrintedIsWholeHolds`, `VerifiableUnlessForcedHolds`, `OverwriteForcedHolds`.  `DataInv` has the
steps of each process (`StepsOK`); for a careful operator that one process is at work
(`Alone`), that `agent.id` is the id that was told (`IdOK`), and what a run has written
and found (`RunOK`, `PrintedOK`); and the reason for `VerifiableUnlessForced`: in a directory
nobody writes to, server files are there only with both files of their CA (`Coherent`),
and a run that does not replace a CA (`Replaces`: no `--force`, and `Stat` told the truth)
writes where there was no `ca.key` (`DirOK`), whatever step an earlier one died at.

`EnrollmentProofs` (from `EnrollAssumption`: file contents are told apart; any number of
processes, tokens, files, CAs and roles): `TypeCorrect`, `RoleEarnedHolds`,
`ServedByOwnCAHolds`, `TwoLoadsOnePinHolds`, `OldCredentialKeptHolds`.  `EnrollInv` follows a
role from the token to the handler that asks for it: a token in the store, in a handler's
hand or granted was issued for a role (`TokensOK`), a handler that signs was granted it
(`HandlersOK`), every credential, in memory or whole in a file, is `Earned`
(`CredentialsOK`), and an open connection was verified by the daemon that is up
(`ConnectionsOK`).  That a token is granted once rests on `OneByOne`: while no two handlers
have met in `mutate`, the one inside holds the lock, has read no more than the store has,
and what it is about to grant has been granted to nobody and is out of the store.  The
theorem says nothing of the rest: there the code does grant twice.

The invariants were checked with TLC on small instances before they were proved.  The
clauses of the assumptions that only tell values apart are there because an id, a
credential or a number is never one of the strings the model uses for "none" or "torn".

Only model-checked: liveness (`CallReturns`, `DrainEnds`, `CommandEnds`, `CallEnds`,
`StopReturns`), which is out of this prover's reach.  Every invariant, action property and
refinement of a passing run is proved.

## 5. Not modelled

* Generated gRPC code; flag parsing and wiring of commands; `install` and `uninstall`
  of the service, each one call of the service library.
* X.509, PEM, YAML and JSON encoding, and cryptography: ideal, with the checks the code
  makes on them kept (`LoadCA` does not compare key and certificate, `ServerCreds`
  does).
* The environment and the arguments of a command, which no decision depends on
  (`parseEnv` is a way for a process to fail before it dials).
* The service manager's own policy (restart, start at boot), which is not in the
  repository.

## 6. Plan

Done: the token store, the gate, the controller, the stream and its abstract
specification, the data directory, enrolment; a proof of every safety property that a
passing run checks, and of the refinements.

The enrolment module has the steps of `Consume` of its own; that they are those of
`TokenStore` is read off the code, not proved.  Further work:

1. What the abstract specifications promise in turn (`JoinTokens`: a token is granted once
   at most; `CommandOutput`: nothing appears after the end and an outcome is final), as
   theorems about them, so that they carry over to every implementation.
2. What still holds of the token store when several handlers share one Flock, and a
   refinement that derives the steps of `Consume` in `Enrollment` from it.
3. The decision operators of `Policy` and `Authz`: the deny list wins, and whatever is unknown
   denies.
