# A verification project for avault

avault keeps secrets sealed under a machine master key and hands them to
programs without showing them to the caller. This directory holds TLA+ modules
of it: the resident agent, whose worker threads share grants, approvals and a
cached master key; the master-key stores, which several processes use at once
with no lock between them; and the one-shot commands, which seal, open, deliver,
redact and sign. TLC checks the modules on small instances, and TLAPS proves
every safety property that the passing runs check for all instances. Every
definition that models code names its lines under `map` in `PROJECT.json`.

## 1. Inventory

| Part | State | Operations | Interacts with |
|---|---|---|---|
| Agent: grants, approvals, nonces (`avault-cli/src/main.rs`: `AgentState`, `AgentShared`, `handle_agent_frame_inner`) | grants by id with expiry and DEKs; spent approval nonces with an `Instant`; time of last activity; the process's keypair | `grant`, `release`, `revoke`, `deliver.run`, `deliver.fetch`, `deliver.inject`, `sign`, the listener's purge | master cache, blind boxes, both clocks |
| Agent: master cache (`AgentMasterCache`) | one cached master with its last use; the `loading` lock | `get`, `purge` | machine store |
| Agent: `open_with_grant` | handles on a cloned grant and on the master | check, load, clone, open, drop, record, I/O | composes the two above |
| Agent: listener (`run_agent`, `AgentAdmission`) | permit counter; one worker per connection; read and write deadlines | accept, admit, refuse, spawn, read, write, drop | clients |
| Agent socket (`bind_agent_socket`) | the runtime directory, the socket file | make and check the directory, inspect, probe, remove, bind | other agents starting, passphrase store |
| Blind boxes (`avault-core/src/blind_box.rs`) | none | seal, open under a context | grants |
| Linux `auto` store (`avault-store/src/lib.rs`: `FileStore`, `TpmStore`) | `machine.key`, `machine.tpm.json` | load, load or create, migrate, import | other processes, the TPM, the disk |
| macOS `auto` store (`KeychainStore`, `FileStore`) | Keychain item, file key | load, load or create, migrate, import | other processes, Keychain |
| macOS authorization gate (`authorize_with_gate`) | flock; persisted end of cooldown | take or wait, prompt, record | other processes, the user, the wall clock |
| Passphrase store (`PassphraseFileStore`) | wrapped key file | create, unlock, import | other processes |
| Envelopes (`avault-core/src/lib.rs`) | none; the rows are kept by other programs | seal, open with the master or with a DEK, export, import | all commands |
| Signing (`avault-core/src/signing.rs`) | none | derive, tweak, sign, verify | `sign` |
| Delivery (`deliver run`, `deliver inject`, the agent's run helper) | plaintexts in memory, a pipe, a temporary file | open, spawn or frame, wait, render, write, rename, sync | stores, a child process, the disk |
| Fetch (`deliver fetch`) | none | validate, inject, send, cap, redact | a server |
| Text of `inject` and `key import` | none | quote, scan | a shell, the user's export |

What is hard here. In the agent every request runs on its own thread; the state
lock is dropped while boxes are opened and while the master loads, so what a
request checked may have changed when it goes on. Expiry is judged on the
monotonic clock and approved on the wall clock. Nonces live in memory and the
process may be restarted. A store access may hang on a prompt. In the stores
every decision is "look, then act" between processes that may be killed at any
point, over stores that may be out of reach at one call and back at the next.

What makes each part correct:

* grants: a DEK is usable only as its approver sealed it; an approval makes one
  grant; a grant ends at its ttl, at its approvals' deadline, after the idle
  timeout or at a release, and nothing revives it;
* master cache: one store access for concurrent cold requests; an idle master
  goes; a failed load blocks nobody;
* `open_with_grant`: invalid requests touch no store; handles live only for the
  crypto; maintenance never waits for a store;
* listener: permits are exact; no client can stall another;
* stores: however commands race, crash and fail, those that succeed use one
  master key, it is on disk, and only a forced import replaces it;
* passphrase store: a wrong passphrase changes nothing; whoever unlocks it has
  the one key in it;
* agent socket: a live agent keeps its path; the socket is in a private
  directory; an agent that cannot unlock its store touches nothing;
* gate: one prompt per burst of callers, none during a cooldown, and nobody
  waits or is refused for ever;
* delivery: a command gets all its secrets or is not started, a file is the old
  one or the new one, no plaintext outlives its use, and agent and helper never
  wait for each other for ever;
* envelopes, exports, boxes: they open under the key and the name they were made
  for, wherever that key has gone, and under no other;
* fetch, dotenv, import, signing: what is sent, redacted, quoted, scanned or
  signed is what a definition that does not use the code's algorithm says.

`PROJECT.json` lists the hazards one by one at their lines, with the properties
that would catch each going wrong.

## 2. Modules

| Module | Models |
|---|---|
| `AgentGrants` | grant state and the handlers of all requests |
| `GrantLedger` | abstract: what the agent promises about usable grants |
| `MasterCache` | `AgentMasterCache` |
| `Agent` | `AgentGrants` and `MasterCache` composed by `open_with_grant` |
| `AgentServer` | listener, admission and connection I/O |
| `LinuxStore` | the Linux `auto` store |
| `MacStore` | the macOS `auto` store |
| `KeychainGate` | the macOS authorization gate |
| `PassphraseStore` | the passphrase store |
| `AgentSocket` | binding the agent's socket |
| `AgentStart` | `run_agent` up to its loop: `PassphraseStore`, then `AgentSocket` |
| `AutoStore` | the `auto` store: `LinuxStore` or `MacStore` |
| `Deliver` | delivery to a child, through the agent's helper, and to a file |
| `Envelope` | seal, open, exports and blind boxes as operators |
| `Vault` | machines that use `Envelope` over rows, exports and boxes anyone may mix |
| `Fetch`, `Dotenv`, `ImportJson`, `Signing` | pure algorithms as operators and recursive functions |
| `Json` | reference: how a JSON document is written and what it means |
| `OneShot` | the commands that apply the four algorithms, and what their answers must be |
| `AgentProofs` | theorems about `AgentGrants`, `GrantLedger`, `Agent` and `AgentServer` |
| `MasterCacheProofs`, `AutoStoreProofs`, `KeychainGateProofs`, `AgentStartProofs` | theorems about the module each is named after and what it is made of |
| `SecretProofs` | theorems about `Deliver` and `Vault` |
| `OneShotProofs` | theorems about `sign`, `deliver inject` and `deliver fetch` in `OneShot` |
| `ImportProofs` | the theorem about `key import` in `OneShot` |
| `MC*` | the finite instances TLC checks, with the `.cfg` files |

Operators whose comment starts with "Fault:" are mutated forms of a definition,
at least one for every checked property. They are part of no specification; each shows
that its property notices a mistake in the code it is about. The type invariant
of a module (`MasterTypeOK`, `ServerTypeOK`, `GateTypeOK`, `AutoTypeOK`,
`PassTypeOK`, `SocketTypeOK`, `DeliverTypeOK`) is a conjunct of its first safety
invariant; `TypeOK` of `AgentGrants` stands alone because it is proved alone.

### AgentGrants

`grants`, `used_grant_nonces` and `last_activity` are the fields of
`AgentState`; `now` and `now + offset` are `Instant::now()` and
`SystemTime::now()`; `keypair` numbers the agent processes. `pc`, `req`, `acc`
and `snap` are a worker's place in its handler and its locals. `consumed` is a
history of publications. A critical section under the state mutex is one action;
a section that reads the clock twice (`publish_grant`, `record_activity`) may
let up to `CsDrift` pass between the readings. Outside the mutex, every reading
of a clock is a step: `ValidateApproval` reads the wall clock, `ReadInstant` the
monotonic clock, `AddDek` the wall clock again, as `approval_expiry_instant`
does. A `grant` handler goes round its loop for each DEK before `PublishGrant`.
A delivery or a signature goes `UseBegin` (the first `get_live_grant`),
`MasterReturns`, `Snapshot` (the second), `OpenEnvelopes`, `RecordActivity`,
`FinishIO`. `Restart` ends the process with all its threads and starts one with
a new keypair.

A blind box is a record of what it is sealed to: process, grant id, DEK key,
ttl, nonce and expiry. It opens when the context the agent rebuilds from the
request is the same (`BlindBoxContext`). The cryptography behind that is not
modelled.

### GrantLedger

At every moment each grant id has a set of usable DEKs. It becomes non-empty
only by spending approvals whose nonces are behind no other usable grant, and
otherwise stays or becomes empty: a lapsed grant comes back only if its approvals
are spent anew. A request takes DEKs only from a usable grant.
`AgentGrants` implements it under the mapping at the end of that module: a grant
is usable when `get_live_grant` would find it, purged or not.

### MasterCache and Agent

`cached` is only locked for bookkeeping, so a use of it is one action. `loading`
is held across a store access, so its holder is a variable. `Agent` interleaves
the steps of `get()` with those of requests over one clock, and drops the master
handle with the grant. `ReplaceStored` is a forced import by another process: the
agent goes on with its cached key until that idles out, about which no document
promises anything.

### AgentServer

`TryAdmit` is the compare-exchange loop with its own copy of the counter, so a
worker may end between the load and the exchange. A read or a write is a series
of polls; `MaxPolls` fruitless ones end the connection. A handler may never
return.

### LinuxStore and MacStore

One operation per process, in the steps at which another process can intervene:
each existence check, read, TPM or Keychain call, link and sync. `Killed` also
stands for an I/O error that ends the command. In `LinuxStore` a power loss
undoes renames that were not followed by a directory sync. A TPM is up, down or
flaky for a whole behaviour, and a flaky one decides at every call; a Keychain
call always may fail, as unavailable or otherwise. Every import, forced or not,
brings any of `ImportedKeys`. `AutoStore` picks the platform at the start. Its
`split` and `alone` are histories. `split` is who began while a forced import had
replaced the TPM blob and not yet the file, the state a kill between the two
leaves behind. `alone` is the forced imports that no forced import of another key
has overlapped or followed.

### KeychainGate

`holder` is the flock, `record` the contents of the gate file, `until` and
`deadline` locals. Truncating and writing the record are two steps; with
`TornWrites` a process may die or fail between the two while it repairs a bad
record. A prompt may stay open for ever. The wall clock's zero is arbitrary: only
differences matter.

### PassphraseStore, AgentSocket and AgentStart

`PassphraseStore` is written like `LinuxStore`: one operation per process in the
steps between which others can act. A wrapped key is the pair of key and
passphrase. `Get` shows what `get_or_create` does with a wrong passphrase: it goes
on to `Create`, which finds the store, and the second `get` fails. In
`AgentSocket` the directory of the socket and its ancestors are one directory
(`dir`), and `UnixListener::bind` is two steps, since between `bind(2)` and
`listen(2)` the file is there and a connect is refused. `AgentStart` runs both in
the order of `run_agent`, with one-shot commands beside it; an agent without
`--unlock` goes to the socket at once. An agent that has bound but does not listen
yet, or that came after another one's look at a stale socket, may lose its path
and serve nobody; the code and the documents promise nothing for two agents
started at the same moment, and `LiveSocketIsNotRemoved` says what does hold.

### Deliver

`at` is the deliverer's place, the one-shot process or the agent's worker;
`opened` and `rendered` are the buffers it holds in the clear, and every way out
of a function drops them (`Leave`), as `Zeroizing` does. A request is a list of
secrets, each with a target and with what is wrong with it, if anything: a bad
name, protected fields, an envelope that does not open, a value that cannot be an
environment variable, a name or value over the helper's limits. The agent writes
its frame field by field into a pipe that holds `PipeCap` of them, while the
helper (`hat`) reads; a value is checked when its turn comes, with others already
sent. On an error the agent wipes, closes the pipe, kills the helper and waits for
it. `InjectCall` is a step of `atomic_write_secret_file`: `file` is what a reader
sees and `disk` what survives a power loss; a file renamed in before it was synced
may come back torn. The deliverer, the helper and the machine may die anywhere.

### Envelope and Vault

Encryption is symbolic: a ciphertext is the record of key, nonce, message and
associated data. Associated data and names are sequences of tokens that are
concatenated as the code does, so a name that ends like another one's suffix is a
case the run has (`MCNames`). In `Vault` machines seal, publish a receiver key,
seal from boxes, export and import; rows of the version before (no associated
data) and protected rows of a browser appear beside them. Nobody is trusted to
keep rows together: the properties present every mix of fields (`MixedRows`,
`MixedBlobs`) to every machine under every name. A store is one register here.

### Fetch, Dotenv, ImportJson, Json, Signing and OneShot

The operators keep the code's names. Text is a sequence of characters, in `Fetch`
of octets: `push_query_encoded` escapes all but `Unreserved` by the table `Hex`.
The conflict check and the server read a URL as `Url::parse` does: blanks at its
ends are gone (`Parsed`) and line ends and tabs are dropped anywhere (`QueryStep`),
while the credential is put into the text as it was written. A request's headers
have names and values (`validate_header`). A loop
over a text is a function of the place or of the number of rounds, defined by
recursion, and a search for the first place with a property is a `CHOOSE` of it;
there are no `RECURSIVE` operators, so that all of it can be proved about. In a
response every byte carries the position it came from, so a property can tell a
credential that came through from characters that spell one by accident across a
marker. `query_pairs` and `SourcedBy` are what a server and a shell make of the
text, as machines that read it a character at a time. `ImportJson` walks over the
document as the code does; a unicode escape is one token, and a function from each
position says where what starts there ends. `Json` is not a parser: a document
is given with the structure it was written from, strings as pieces (a character,
an escape, a surrogate pair), nested values as the brackets, strings and tokens in
them, and `ObjectText` writes it with a gap of spaces wherever JSON has them. What
comes to `key import` is that text with any number of tokens cut off its end.
`Signing` works in a group of prime order `Order`, where a point is its scalar, `x`
forgets the sign and `y_is_odd` tells the two apart. `OneShot` takes one input,
applies the command and compares the answer with a reference: the runs of the
needle in the text, the fields the document was written from, the public key an
observer computes.

## 3. Runs

| Run | Question |
|---|---|
| `grants_ledger` | With two workers, two grant ids racing for one nonce, the wall clock set back and time passing inside critical sections, does the agent implement the ledger? Does no grant outlive a deadline, no ttl slide, no approval back two grants, and does the idle clock move on success only? |
| `grants_requests` | With every odd grant frame (wrong id, longer ttl, another process's box, repeated nonce, malformed approval) and a restart at any point, are cached DEKs what was approved, does a refused grant spend nothing, is an approval accepted again only after its computed expiry? |
| `single_use` | disagreement, see 6 |
| `master_cache` | Three workers, a failing store, a replaced key: are loads shared, does an idle master stay unused, is the loading lock released? |
| `agent` | Over both components, with a restart and a store that may hang: are handles dropped, is the store left alone by invalid requests, does maintenance go on? |
| `server` | Three connections, one of another user, for two permits: is the counter exact, is every client dispatched and every stalled one dropped? |
| `auto_store` | On either platform, three processes, all operations, kills: with a TPM that is up, down or flaky and power loss, or with any Keychain call failing, do those that succeed share one key that is on disk, and does what a forced import replaced stay gone, also if it stopped half way? Imports bring two keys, also forced and at the same time. |
| `store_fallback` | disagreement, see 6 |
| `keychain_gate` | Three processes, prompts granted, denied or left open, deaths, a damaged record, a clock set back. |
| `gate_torn` | disagreement, see 6 |
| `agent_start` | Three processes, each an agent or a command, two passphrases, a stale socket or none, kills and power loss: is there one wrapped key that a wrong passphrase cannot replace, does a live agent keep its socket, is it made in a private directory? |
| `one_shot` | One of three at a time. A delivery, with every list of up to two secrets that may be faulty: all or nothing, the old file or the new, no plaintext left, nobody stuck? Two machines and three rows, exports or boxes: does each open where it belongs and nowhere else? Every text command over its bounded inputs: does it agree with its reference? |

**Bounds.** Time runs from 0 to `MaxNow`, four to six ticks: enough for a grant
of ttl 3 to be made, to lapse by ttl, deadline (3 or 4) or idleness (2), and for
its nonce to be presented again. `CsDrift` 1 is the least that separates two
readings. `MaxKeypair` 2 gives one restart, and boxes for both processes. Two
workers (three for the cache, where the third waits behind the second) and two
ids are what the races need: each is between two handlers over one nonce, grant
or lock. In the stores three processes let one create, one lose the race and one
read later; two keys are enough for forced imports to differ, and either may be
the rival (the keys are symmetric, as the processes are). In the gate three let two wait; the cooldown and the step back of
the clock are two ticks, so a record can be exactly one window, or more, away.
`AgentServer` has more clients than permits, and one poll before a timeout.
In `one_shot` a list of two secrets meets every pair of faults, and one of three
is over `MaxSecrets` 2; `PipeCap` 2 is less than the shortest frame, so the writer
waits. `MaxItems` 3 is a row, another to take fields from and an export or a box
(4 passes too, in a minute). A response is three pieces, each empty, one byte or
a form of the credential, with `MaxBody` 7 and a marker of three bytes: bodies at,
under and over the limit, before and after redaction. The URLs have no query, an
empty one, the injected name as it is, escaped in either case or with a dropped
byte in it, escapes that are none, and blanks at the end of the query and of the
fragment; the names are letters, separators, and ones with blanks. Dotenv values have up to
three characters of five kinds, enough for a quote beside a quote and at both
ends. An import document has up to two fields with keys that are plain, escaped,
repeated or no text, and values of every kind: strings with each escape, with half
a surrogate pair, or one longer than `MaxStdinSecret` 3, nested values that hold
what looks like a field or a bracket, and bare ones. It is written with and
without spaces and cut off at up to fourteen places. `Order` 11 with keys
and tweaks up to 16 has every residue, zero and values over the order.
Symmetry over workers or processes is used in runs without liveness
properties only (`grants_ledger`'s refinement is a safety property).
`CHECK_DEADLOCK FALSE` is said of the stores, of `AgentStart` and of the one-shot
commands, whose processes end.

**Fairness.** `MasterCache!FairSpec`: the listener polls for ever, threads run,
and a store access returns; a free lock is taken by some waiter, not by a given
one, as `std::sync::Mutex` is not fair. `AgentFairSpec`: the listener and the
workers' own steps only; a store access and external I/O may hang.
`ServerFairSpec`: the listener and the workers outside handlers; nothing of
clients. `KeychainGate!FairSpec`: waiters poll and time passes; nothing of the
holder or its user. `Deliver` (in `MCSpec`): the deliverer and the helper run,
which is all two processes need; nothing of the command, which may run for ever,
so only the exchange over the pipe must end. The liveness properties of the cache and the agent hold
though time may stop at `MaxNow`: they ask only that maintenance runs.

## 4. What is proved

Every theorem is for all values of the constants: any set of processes, workers,
connections, machines, ids, names or nonces, any timeouts and bounds. The named
assumptions (`NoneAssumption`, `RequestsAssumption`, `StoreAssumption` and so on)
only say what the constants are: numbers are numbers, requests and boxes have
their shape, `None` is no value, an imported key is no generated one. TLC
evaluates them in every run of their module. A theorem with a hypothesis beyond
these says so below.

| Theorem | Establishes |
|---|---|
| `AgentProofs!TypeCorrect` | `TypeOK` |
| `AgentProofs!GrantsMatchApprovals` | `GrantMatchesApproval` |
| `AgentProofs!ApprovalsNeverShared` | `ApprovalsBackOneGrant` |
| `AgentProofs!ReuseOnlyAfterExpiry` | `ApprovalReusedOnlyAfterExpiry` |
| `AgentProofs!DeadlinesHold` | `DeadlineHolds`, if the wall clock is never set forward |
| `AgentProofs!SingleUse` | `ApprovalSingleUse`, if the wall clock is not set and the two clock readings of an approval show the same instant |
| `AgentProofs!NoncesSpentForGrants` | `NonceSpentOnlyForUsableGrant` |
| `AgentProofs!GrantsAreNotProlonged` | `NothingProlongsAGrant` |
| `AgentProofs!GrantsImplementLedger` | `ImplementsLedger`, the refinement |
| `AgentProofs!AgentImplementsGrants` | `AgentSpec => Spec`: the composed agent inherits all of the above |
| `AgentProofs!KeysOnlyForCrypto` | `KeysOnlyForApprovedCrypto` |
| `MasterCacheProofs!LoadsShared`, `IdleMasterStaysDead` | `LoadsAreShared`, `IdleMasterIsNotRevived` |
| `AgentProofs!AgentSharesLoads`, `AgentMasterStaysDead` | the same two of the composed agent, whose processes may end and start again |
| `AgentProofs!PermitsExact` | `PermitsAreExact` |
| `AutoStoreProofs!OneKey`, `SealedKeyStored`, `ForcedImportKept`, `ForceNeeded` | `OneKeyPerMachine`, `SealedKeyIsStored`, `ForcedImportHolds`, `ForceIsNeeded` |
| `AutoStoreProofs!FallbackIsFirstUse` | `FallbackOnlyOnFirstUse`, if no machine's TPM comes and goes |
| `KeychainGateProofs!OnePrompt`, `RefusalsAreBounded` | `OnePromptPerBurst`, `RefusalsEnd` |
| `KeychainGateProofs!CooldownKept` | `CooldownIsKept`, if rewrites are whole and the wall clock is never set forward |
| `AgentStartProofs!OneKeyUnderPassphrase`, `NothingElseReplaces` | `OneWrappedKey`, `WrongPassphraseReplacesNothing` |
| `AgentStartProofs!SocketsArePrivate`, `LiveSocketKept` | `SocketDirIsPrivate`, `LiveSocketIsNotRemoved` |
| `SecretProofs!AllOrNothing`, `FileWhole`, `PlaintextIsWiped` | `CommandGetsAllOrNothing`, `InjectedFileIsWhole`, `NoPlaintextIsLeft` |
| `SecretProofs!NoTransplant`, `ValuesStayReadable`, `ExportsRestore` | `EnvelopesAreNotTransplanted`, `SealedValuesStayReadable`, `ExportsRestoreTheirKey` |
| `OneShotProofs!SignaturesAreValid` | `SignaturesVerify` |
| `OneShotProofs!DotenvRoundTrip` | `DotenvReadsBack` |
| `OneShotProofs!CredentialIsSentAsItIs` | `CredentialIsSentOnceAndWhole` |
| `OneShotProofs!RedactionIsSound` | `RedactionIsExact` |
| `ImportProofs!ImportIsExact` | `ImportReadsItsFields` |

Hardly any of these properties is inductive. Each module of theorems begins with
its invariant, which TLC checked on the instance of the run before it was proved,
and has a lemma per action or group of actions that it is kept.

**Grants.** What `publish_grant` relies on was gathered by the handler's loop
before the lock was taken, so the invariant has to speak of the locals of
handlers under way; and a purge may forget a nonce only when no grant needs it.
`ApprovalInv` is `TypeOK` and

* `Pending`: every DEK a handler has gathered was sealed to its request and this
  process, its nonce is among the pending ones, and the grant-to-be ends no
  later than any pending nonce's expiry, nor than the ttl from now;
* `Matching`: the grants in the map match their boxes;
* `Backed`: the nonce of each cached DEK is remembered at least as long as its
  grant lasts, and is behind one grant only;
* `Remembered`: a box published before cannot be published now, because it was
  sealed to an earlier process or its nonce is remembered, until its expiry.

The case that needs all of them is `PublishLedger`: a purge, the test of the
pending nonces, the spending of them and the new entry, which may replace one
under the same id. `GatherInv` adds what a handler and a grant hold: a nonce is
pending only with its DEK, a grant is never empty, and, for clocks that are not
set forward, an expiry computed from two readings lies before every deadline
behind it. `DeadlinesHold`, `NoncesSpentForGrants` and the refinement rest on it.
`SingleUse` is the rest of `ReuseOnlyAfterExpiry`. That theorem has no hypothesis,
but ends at the expiry the code computed; `SingleInv` says that without the two
clock effects this is the approval's own expiry, and a grant is only published
before that, so each box is taken for the first time.
In the refinement a worker's clone is a request in progress of the ledger, a
purge and the passing of time are lapses, and only `PublishGrant` is a grant;
that it spends free approvals is `Backed`.

**Agent.** `AgentImplementsGrants` shows that each step of the composition is one
of the grants or leaves them alone. `KeysOnlyForCrypto` needs `AgentInv` beside
the grants' invariants: `MasterOK` is what `MasterCache` keeps true of its lock
and its handles, and `Joint` ties a worker's place in `get()` to its place in its
request. An id whose grant lapsed while the master loads still counts as
approved, because `consumed` remembers what was published (`GrantsAreSpent`).
Towards the cache the composition is less simple: its clock moves inside steps of
the grants, and a restart takes the copy, the lock and the handles away at once.
`AgentStepIsCacheStep` shows that each step is a step of `MasterCache`, a restart,
or time passing with the cache as it was; `CacheInv` survives all three, and the
lemmas of `MasterCacheProofs` are used by instantiating that module.

**Master cache.** `CacheInv` adds that no copy was last used in the future.

**Listener.** `ServerInv` adds that the backlog has each waiting connection once
and that the listener has a connection between accepting and dispatching it.
The set of connections may be infinite: that the permits are counted by a finite
set is part of the invariant.

**Stores.** The platforms have an invariant each. `MacInv` and `LinuxInv` say
what a command holds at each step (`MacHolds`, `LinuxHolds`) and, while nobody
forces an import, where its key is (`MacQuiet`, `LinuxQuiet`): in the file, in
the other store, or in neither before it has put it there. `SyncedInv` relates
what the directory shows to what is on disk; `SteadyTpmInv` is for a TPM that is
always there or never: with one that is, no command falls back to the file.
`SplitInv` is about half-done forced imports: who began on one meets the new key.
`AloneInv` is about a forced import without a rival: what it has written by each
of its steps stays there, whoever else is at work.
`FallbackInv` is for the file fallback: with a TPM that is never there nothing is
ever sealed, and with one that always is no command reaches the file's steps but
a forced import over a file key that is already there.

**Gate.** `BurstInv` says who saw a prompt since it first tried. `RefusalInv`
bounds the record, or what is about to be written there, by the first refusal
and one window, on the wall clock as it is set since. `CooldownInv` says that
while the window of the last denial is open there is something to tell: a record
that ends late enough, one that cannot be read, or a holder about to write.

**Start of the agent.** Steps of `AgentStart` are steps of the store or of the
socket, so each half has its own invariant. `StoreInv`: a generated key is in the
file only after its maker made the store, and unless an import is forced what is
on disk is the file or nothing. `SocketInv`: a socket or an agent past the
validation means a private directory; whoever answered when another agent found
a stale socket has not got the path and will not bind again.

**Delivery.** `DeliverInv`: the deliverer holds a prefix of the request's
secrets, all of them once it hands them over; the pipe holds the fields of the
frame that were written and not read, so what the helper has read follows from
its step; a file renamed in was synced.

**Vault.** `VaultInv` says of each row, export and box under which keys, names
and contexts it was made, with keys numbered by what made them. The lemmas under
it are about the code's encodings: `aad` is injective, though names are
concatenated with no length before them; the associated data of a protected
record is never that of another kind of row and names one record; and trimming
line ends identifies exactly the passphrases `SamePassphrase` says. A longest
prefix that does not end in a line end exists by well-foundedness (`WFMin`), not
by recursion.

**Text commands.** A command answers once, so the invariant is only that its
answer is the operator applied to its input (`Ran`); the work is in the operators,
for texts of any length. What a recursive function computes
is not within reach of the library's induction theorems, which take an operator.
Induction is instead over a set: a set of numbers has a least member (`Least`, from
`WFMin`), so a set that holds 0 and is closed under successor holds all numbers
up to a bound (`Induct`, and `Downward` from the end). That a recursive definition
defines a function at all is proved the same way, by building it up to each bound
(`Chased` for the functions in `ImportJson`, which look up a place further on).

* `SignaturesAreValid`: with a tap tweak the code adds scalars where an observer
  adds points, after making the internal point even. The cases are whether key
  and tweaked key are over half the order, in arithmetic modulo the order.
* `DotenvRoundTrip`: where the shell is after each part of a line, character by
  character, whatever it has assigned before.
* `CredentialIsSentAsItIs`: the server's machine on the part before the fragment,
  on the pair that is put in and on the fragment; decoding inverts
  `push_query_encoded` a byte at a time, for any table that spells no two bytes
  alike, and no encoded byte is a separator or dropped. Encoded text ends in no
  blank, so `Url::parse` takes nothing off the URL that is sent but from its
  fragment (`ParsedUrl`).
* `RedactionIsSound`: the matches of a pass are the greedy choice, which is a
  largest set of occurrences that do not overlap, so the size is right; a copy
  without its matches holds the needle only across a marker (`NoneLeft`), keeps the
  rest in order (`Faithful`), and a second pass, for the encoded form, keeps both.
* `ImportIsExact`: the text of a part stands at a position (`HasAt`), and the
  scanner goes from its first position to just past its last. For strings that is
  by pieces, with the escape that would swallow a quote as the danger; for nested
  values the scanner's stack is related to the depth the items have (`IsOpen`:
  the brackets on it are those opened and not closed, in order); for an object,
  field by field, up to the first whose key reads as the name. A text cut off is
  a prefix, and lemmas for each operator (`...InCut`) say that on a prefix it
  finds what it finds in the whole, or nothing.

**What the proofs found in the models.** Several `CASE` expressions had guards that
overlapped. TLC takes the first, the code has the branches in that order, but
TLA+ leaves the choice open, so nothing could be proved of them; their guards are
disjoint now. The tokens of a protected record's associated data could, for some
name, be those of another row's `aad`: the code's text ends in the brace that
closes the object and `aad` in a version byte, and the model left the brace out.

## 5. What is only model-checked

* Liveness, under the fairness of section 3: `LoadingLockIsReleased`,
  `MaintenanceNeverWaitsForStore`, `EveryClientIsDispatched`,
  `StalledClientsAreDropped`, `WaitingEnds`, `PipeIsNeverStuck`.

ENABLED, and with it what fairness brings about, is beyond the prover; a liveness
property is checked on the instances of section 3 and for no others.

The hypotheses of the theorems are needed:

* `FallbackIsFirstUse` excludes a TPM that comes and goes, `CooldownKept` a
  rewrite that is cut short, and `SingleUse` a worker preempted between two clock
  readings. Each is what a run of section 6 finds without the hypothesis, and the
  theorem says that nothing else leads there.
* `CredentialIsSentOnceAndWhole` says itself that a name is sent once unless blanks
  at the end of the URL made another pair. The README's "conflicting injected
  header/query fields are rejected" does not hold of those: the check is made on
  the parsed URL and the pair appended to the text as it was written. With
  `https://h/?tok ` and the name `tok ` (both with a space at the end) the check
  sees `tok`; in the URL that is sent the space is inside the query, and the server
  reads the name twice. Without the condition `untrimmed = query_pairs(r.url)` in
  that property, the run `one_shot` shows it.
* `ForcedImportHolds` says itself that no forced import of another key overlapped or
  followed. Each writes two stores in no common order (`lib.rs:639-644`,
  `lib.rs:732-739`), so one may replace the first, the other both, and the one
  the second. Both then succeed and the stores disagree; later commands refuse to
  choose, and a further forced import mends it.
* `OneKeyPerMachine` says itself, for Linux, that the TPM does not come and go and
  that nobody forces an import.
* `DeadlineHolds` depends on the wall clock not being set forward: the approval's
  absolute expiry becomes an `Instant` once, so after a step forward (or a sleep
  during which the monotonic clock stood still) a grant is usable past the
  expiry. With `WallSteps <- Forward` and `MaxOffset = 2` in `MCGrantsLedger.cfg`
  TLC shows it.
* `SealedKeyIsStored` is stated for the process that made the key: only it syncs
  the directory entry, so a second process may read and use a key that a power
  loss then takes away. The code promises nothing there.

## 6. Where the code and its documents disagree

* `single_use`: `approval_expiry_instant` reads the monotonic clock before the
  wall clock. A worker preempted between the two remembers the nonce for less
  than the approval's life, and the same approval is accepted twice. The README
  says nonces are "single-use until their approval expiry".
* `store_fallback`: on Linux a process that saw no TPM blob may find one made
  meanwhile, fail to unseal it because the TPM is momentarily unavailable, and
  mint a file key beside it. The README allows the fallback only "on first use
  when no stronger store exists".
* `gate_torn`: the cooldown record is truncated and then written. A process that
  dies in between, repairing the record of a cooldown still running, leaves it
  empty, and the next caller prompts. The comment on the function says that bad
  metadata "never re-enables them early".

## 7. What is not modelled, and the plan

Not modelled for good:

* HPKE, AES-GCM, scrypt and secp256k1: symbolic, or a toy group. What is modelled
  is what the code binds into them and checks around them; the byte layout of a
  blind box's associated data is pinned by test vectors.
* HTTP itself (redirects are off, TLS is the library's) and how serde renders or
  reads JSON, but for the one scanner the code writes by hand.
* Copies below a buffer: what a `Vec` leaves behind when it grows (the dotenv
  renderer, `main.rs:1403`) or a library keeps. `NoPlaintextIsLeft` is about the
  buffers the code names.
* `Url::query_pairs` decodes a pair that is no UTF-8 with replacement characters,
  and the model keeps its bytes.
* Command-line parsing, output and logging: no state and no order.
* Windows ACLs, page locking, core-dump and ptrace settings: system calls without
  a protocol.
* Build and release scripts.
* A poisoned mutex: a panic with the lock held ends the agent's use, which its
  code treats as fatal.

Every safety and action property that a passing run checks is stated by a
theorem, and each that a run refutes by one with the hypothesis it lacks.
Liveness stays with TLC, for the reason in section 5. A next model could give the
listener and the grants one state, so that a connection's frames, and not a
worker, are what the requests come from.
