# A TLA+ model of cvld

cvld lets a community admit members by voucher and lets members prove their
eligibility later. A voucher is redeemed once, a member gets a passkey and
short-lived admission certificates, sessions and API keys give access to the
rest of a server, and an issuer turns an attested voucher into an anonymous
credential that the member's browser keeps and proves from. This directory
specifies the parts of the repository that keep state, model-checks them with
TLC and proves theorems about them with TLAPS. Paths are relative to the
repository's root; line numbers are in `PROJECT.json`.

## The system

| component | state | operations | talks to |
|---|---|---|---|
| durable membership store (`src/sqlite.js`, `src/turso.js`, credentials also in `src/credential-store.js`) | tables `voucher_spends`, `members`, `credentials`; Turso: `retired` | insert, get, hasMember, updateCounter, registerWithVoucher, rebind | called by the entry service, the passkey service, the verifier |
| entry service (`src/entry.js`) | in memory: `pending` challenges, `sessions`, `sessionReservations`, `issuerPending` offers | beginRegistration, beginRegistrationPrecommit, finishRegistration, beginAuthentication, finishAuthentication, rebindDevice, getSession, revokeSession, authenticatedSession, isCurrentMember, beginCredential, issueCredential | awaits the bridge, WebAuthn, the store, the issuer |
| credential issuer (`src/issuer.js`) and receipts (`src/sqlite.js`, `src/turso.js`, `src/receipts.js`) | tables `receipts`, `issuances`; Turso: `retired` | issue / issueOnce | called by the entry service and by other processes on the same database |
| API keys (`src/api-keys.js`, `src/api-keys-turso.js`) | tables `cvld_api_keys`, `cvld_api_key_clock` | create, authenticate, list, revoke | called by the HTTP handler |
| browser credential holder (`src/browser-holder.js`, `src/holder-worker.js`, `native/holder/src/lib.rs`) | page: `sequence`, `active`, `closed`; Worker: `initialized`, `holder`, `busy` | request, accept, restore, presentProfile, verifyProfile, close | messages between page and Worker |
| HTTP handler (`src/http.js`) | none; the locals of a request across its awaits | routes; turns a cookie or a bearer token into a principal | entry service, API keys |
| passkey service (`src/passkeys.js`) | `pending` ceremonies of two kinds | beginRegistration, finishRegistration, beginAdditionalRegistration, authorizeAdditionalRegistration | awaits WebAuthn and the store |
| eligibility verifier (`src/verifier.js`) | `pending` challenges | begin, authenticate, verify | awaits WebAuthn; calls the store, and does not await it |
| voucher bridge (`src/voucher-bridge.js`, `native/voucher`) | none; one process per call, killed at its timeout | verify, verify_device | the entry service |
| Node holder, client wallet, encodings, admission certificates, build | none that is shared | | |

### What is hard here, and what must hold

* **Every call of the entry service is cut into segments by its awaits.** In
  between, other calls run, time passes, sessions are revoked or pruned, and
  the process may stop. The code re-reads the clock and looks at the session
  again after each await. What must hold: a challenge or an offer is used
  once; the session limit holds although the place is taken before the
  transaction and used after it; what is handed out in the end (session,
  certificate, credential) is backed by what the store holds.
* **Transactions decide.** Voucher, member and passkey uniqueness and three
  capacities are checked in the transaction that inserts. What must hold: a
  voucher admits at most one member, and an admission is never undone.
* **A commit's answer may be lost** (Turso). The effect may be there; the
  caller must behave as if it were not, and the handle must be retired.
* **Receipts are forgotten when they run out**, at a time the caller read
  before it waited for the lock. What must hold: no two valid credentials
  from one receipt, and a retry gets the same credential.
* **The clock may be set back** (API keys): a persisted floor keeps keys that
  have run out from coming back to life.
* **Three services count the same passkeys**, each after comparing with a
  counter it read long before. What must hold: no counter passes twice; a
  further passkey stands for a signature of an earlier one; an admission never
  outlives the member's voucher.
* **The services share a process and a store.** The commit answer one of them
  loses retires the handle under the calls of the others, a restart forgets the
  memory of all, a passkey of one logs in at the others. What must hold: each
  still keeps its promises; no counter passes at two of them; an account made
  without a voucher is admitted nowhere.
* **A request may carry a cookie and a token**, and the session may end while
  its member is read. What must hold: keys are managed by a session of their
  member, and a key that was revoked before the request is nobody's principal.
* **A Worker answers late, never, or fails** while the page's timer runs. What
  must hold: every promise is settled, by its own answer or not at all, and
  what the page was told of the Worker's state stays true.

`PROJECT.json` lists the single hazards, at the line where each bites, with the
properties that would catch it.

## Modules

```
Membership                     the promise: vouchers admit members one to one
  ^ implements
MembershipStore                the durable tables, one action per transaction
  ^ EXTENDS
EntryState                     memory of the entry service, awaits, environment
  ^ EXTENDS
EntryRegistration  EntryLogin  EntryMember  EntryCredential
  ^ EXTENDS all four
EntryService                   composition, Spec, FairSpec, properties

AccountState                   EXTENDS MembershipStore: memory of the two below
  ^ EXTENDS
PasskeyService  Verifier
  ^ EXTENDS both
Accounts                       composition, with the entry service's writes

System                         EntryService and Accounts in one process, on one
                               store: each is the other's environment

ApiKeys                        API keys and the way of a bearer request
  ^ EXTENDS
Principals                     sessions, cookies, tokens and the routes behind

Redemption                     the promise: no two valid credentials on one
  ^ implements                 receipt, and a retry is handed the one there is
Issuance                       issuer.issue and issueOnce over the receipts

AtomicHolder                   the promise: one object that does one call at a
  ^ implements                 time, each at one moment or not at all
BrowserHolder                  page and Worker, and the messages between them
```

`MC*.tla` and `MC*.cfg` give the constants for TLC; `*Proof.tla` hold theorems.

### MembershipStore

Rows are records and tables are sets. An operation is one transaction
(`BEGIN IMMEDIATE` in SQLite, a write transaction in Turso, which excludes
others), hence one action: `RegisterWithVoucher`, `Insert`, `UpdateCounter`,
`Rebind`. A refused or failed operation leaves the tables alone and is no step.
SQLite judges expiry by the time its caller passed, Turso also by its own
clock: an operation may be judged at either. There is one community, which is
what a service serves; a voucher stands for its receipt id, which the bridge
derives from it; public keys and authorizations are represented by their
device.

### EntryState and its four extensions

`calls[c]` is what caller slot `c` awaits and the locals it keeps across that
await; one action is one synchronous segment, from one await to the next or to
the return. For instance `finishRegistration` is `FinishRegistration` (consumes
the challenge, calls WebAuthn), `WalletVerified` (calls the bridge),
`VoucherVerified` (prunes, reserves a session place, calls the store),
`MemberCommitted` (the store's transaction, as seen by its caller) and
`MemberPublished` (releases the place, opens the session, returns the
certificate). `Transaction` has the four outcomes of a Turso commit: done and
acknowledged; done with the answer lost; not done; not done and in doubt. In
doubt the handle is retired, and a retired handle refuses new work at once
(`available` and `withTransaction` of `src/turso.js`): where the code calls the
store, the model checks `Usable`. What was sent before is still answered. A read
awaits its answer too: it is a segment that fetches the row and one that judges
it, as time and revocations come between them. `AtStore` names the states in
which a call waits for the store.

The passkey service and the verifier may be in the same process, on the same
store: `OtherServices` are their transactions as the entry service sees them,
with a lost commit answer of theirs (`retired`).

External code is a choice: the bridge and WebAuthn accept or refuse, an
assertion may carry any counter, the issuer makes the credential or rejects
(`Issuance` says how). Ids are drawn from a counter, since 256 random bits do
not repeat. Device authorizations are those clients present; they were issued
before the model's time 1. Time stands still within a segment and never goes
back here (it is a function the embedding supplies; only API keys guard against
its being set back, and there the model sets it back). `issued` and `minted` are history:
the certificates and credentials handed out.

A certificate is its fields; the canonical bytes and signatures of
`src/admission.js` are not modelled. `isCurrentMember` only reads and is part
of `ApiKeys` (`MemberLookedUp`) and of `EntryCredential` (the actor's lookup).

### AccountState, PasskeyService, Verifier and Accounts

The passkey service and the verifier keep their own challenges and share the
store. `ceremonies` has both kinds of the passkey service's `pending`, as the
code has them in one map: `Answerable` is `consume`, which takes the entry out
whatever its kind. A registration runs through `OptionsMade` (options are
generated, then the ceremony begins, if there is room), `FinishRegistration`,
`RegistrationVerified` and `PasskeyInserted`; a further passkey first through
`PasskeyFound`, `AuthorizeAdditionalRegistration`, `OwnerVerified` and
`OwnerCounted`, which counts the assertion and only then begins a registration.
The verifier does not await `updateCounter`, so that only a store that answers
at once can serve it; `store` is that ("sync": SQLite or in memory) or
"turso". What WebAuthn and AnonCreds verify is a choice among what they may
accept: any counter the snapshot allows, any credential the member was issued
(`held`) that proves the validity asked for.

The entry service, in another process or the same, writes to the same tables:
`EntryWrites` are its transactions, and what it does to the shared handle.
`Hold` is a holder that accepts a credential issued to a member. `drawn` (member ids the passkey service
made up), `held`, `assertions` and `grants` are history.

### System

The entry service was modelled with the other two as an environment, and these
with the entry service as theirs. `System` takes both as instances and lets
each step of one (`EntryStep`, `AccountStep`) happen in the state of both:
tables, clock, handle and process are shared, challenges, sessions and calls
are each its own (`entryOwn`, `accountOwn`). `Accept` replaces `Hold`: a holder
gets what the issuer has made through the entry service (`minted`) and nothing
else, which is what the host configures when it gives the issuer to the entry
service alone (`test/account.test.js` has a host that calls it directly). Two
facts about member ids are in it: ids the passkey service makes up are random
(`src/passkeys.js:42`), those of members with a voucher are hashes of root keys
that signed a device authorization (`Roots`), and the two never meet.
That neither side does to the other what its environment does not allow
(`KeepsEntry`, `KeepsAccount`) is not a property of the code but the lemma on
which the composition rests, so it is proved and not run: from it every property
checked of one side alone, with instances of its own size, holds here. What the
run checks needs both sides: the counters, the way of an admission back to its
credential, the accounts without a voucher, and the handle they share
(`NothingNewOnRetired`: one that any service has left retired is sent nothing new
by any of them, and what was sent already may still change the tables, with its answer).

### Issuance

An operation is a request with its attestations, each a receipt and the time
until which it is good; a repeated request has the same operation id. `Issue`
reads the clock and checks; the transaction judges by the time the call read
(`calls[w].now`), however much later it runs. On SQLite it is one segment,
`IssueOnce`. On Turso its statements are awaited one by one: `Sign` takes the
write lock, looks into the tables, reads the clock again and signs; the inserts
and the commit are awaited after that, and `Commit` is where they take effect, or
do not, or do and the answer is lost. In between a credential may run out: it is
then handed out all the same, and judged by whoever is shown it. While a
transaction is signed but not committed the lock keeps the others away (`Locked`).
`store` is chosen initially; SQLite's workers may be several processes on one
file.

`RetryFindsResult` is what a caller relies on when an answer was lost: while the
credential is valid, a call that repeats the operation and comes to its
transaction finds that credential stored, and no other.

`Redemption` is an issuer that forgets nothing and has neither tables nor
transactions: a credential is made only when no valid one stands on any of its
receipts, and an operation that is repeated is handed the valid credential it
has. `Issuance` implements it (`ImplementsRedemption`) although it prunes
receipts and results, at a time read earlier. The mapping takes what a caller
asks for and is handed from where its call is (`Asked`, `Handed`).

### ApiKeys

`Current` is `now()`/`current()`: it refuses a clock behind the persisted
floor. A transaction that throws is no step, since the floor it wrote is rolled
back; one that merely refuses commits the floor. On Turso a commit whose answer is lost
has taken effect (`Ambiguous`) or has not (`InDoubt`); the handle is retired
either way. A bearer request goes on after
the transaction: Turso judges the expiry once more (`Answered`), and the HTTP
handler awaits the membership (`MemberLookedUp`) before a route uses the
principal (`PrincipalUsed`). `SetClock` moves the clock in either direction.

### Principals

`ApiKeys` lets any bearer request come at any time. `Principals` says which
ones do: a request names a session by its cookie, carries a token, or both
(`Arrive`, with the checks of origin and method in `Admitted`); the session is
looked up first (`OwnerRead`, the second half of `authenticatedSession`), and
the token is tried if it is refused (`BearerAsked`). The routes behind it are
the actions of `ApiKeys` called by a principal (`KeyCreated`, `KeysListed`,
`KeyRevoked`), or hand a bearer principal to the entry service (`BearerUsed`).
Of the entry service this module has only the sessions, their end, and the
expiry of vouchers (`MemberUntil`); `EntryMember` and `EntryCredential` have
the rest.

### BrowserHolder

`toWorker` and `toPage` are the message queues. The Worker handles `request`
and the two profile operations in one step and awaits in `init`, `accept` and
`restore` (`working`). `holder` is how far the credential handle of
`native/holder/src/lib.rs` is: none, fresh (created, but its request failed),
requested, held. The page's timer is enabled as long as its call is active. The
Worker's refusal of a message that comes while it is busy is in the model and
`NeverBusy` shows that the page never causes it.

`AtomicHolder` is the holder as the page may think of it: no Worker and no
messages; a call begins, takes effect at one moment or not at all, and returns;
giving up rejects the pending call and ends everything. `Effect` says what a
call may leave when it fails: a failed request may leave a handle on which
nothing succeeds any more, a failed accept a credential that is held. In the
mapping an accept takes effect when the Worker answers, although the Worker
keeps the credential before it seals it (`Kept`), since nothing can look at it
in between.

## Runs

| run | module | instance | what it shows |
|---|---|---|---|
| `store` | MCMembershipStore | 3 members, 3 vouchers, 4 passkeys, 2 devices, counters 0..2; room for 2 spends, 3 passkeys, 2 per member; a voucher that runs out | the tables agree, keep to every capacity, and never undo an admission or a counter |
| `join` | MCEntryJoin | 2 registrations at once, 2 members, 2 vouchers, 2 passkeys, room for 1 challenge and 1 session, times 1..4, 1 restart | reservations, single use of challenges, sessions backed by the store, `Membership` kept |
| `login` | MCEntryLogin | a registered member, 2 logins/rebinds/checks at once, counters 0..1, 2 sessions, a voucher that runs out, 1 restart | one login per counter, certificates of rebinds, only live sessions granted |
| `credential` | MCEntryCredential | 2 registered members, a session and API keys as actors, 1 offer at a time, 1 restart | an offer is used once, the issuer is asked only while the session that asks still stands, a credential is made for the member who asks and ends with the voucher |
| `service` | MCEntryService | every operation, 1 member, 2 calls at once, times 1..2 | the shared reservation count, and every call ends |
| `voucher_unspent` | MCEntryJoin | as `join` | violated: see Findings |
| `issuance` | MCIssuance | 2 calls, 4 operations sharing 3 receipts, room for 2, times 1..5, 1 restart, both stores | no replay window, exact retries, lost answers can be fetched again, capacity, `Redemption` implemented |
| `browser_holder` | MCBrowserHolder | 5 calls in any order | no busy Worker, answers that stay true, every call settles, `AtomicHolder` implemented |
| `passkeys` | MCAccounts | the passkey service alone: 2 calls, a member who joined and one to be made up, 3 passkeys, 2 ceremonies at once, times 1..3, 1 restart, both kinds of store | ceremonies keep to their kind; every further passkey was signed for |
| `verifier` | MCAccounts | both services and the entry service's writes: 2 calls, 1 member, 1 passkey, counters 0..1, 2 challenges ever, admissions that outlast challenges | one answer per challenge, one use per counter, admissions end with the voucher |
| `principals` | MCPrincipals | 2 requests of 2 members, a key and a second one, room for 2, one per member, 1 session, clock 1..2 in either direction, restarts, both stores | keys managed by sessions only, capacity, no revival by the clock, revocation is final |
| `system` | MCSystem | after a member has joined: 1 call of each side at a time, a passkey made without a voucher or added, counters 0..1, 2 ceremonies or admissions ever, times 1..2, both stores, a restart on Turso | one use per counter in the whole server; admissions go back to credentials; no admission without a voucher; a retired handle is sent nothing new |

### Bounds, and why they are enough

The properties relate at most two calls, two members or two vouchers: two of
each let every pair of segments interleave, and a third only repeats a pair.
Capacities are one or two, so that they are reached. Times go beyond every
lifetime in use, so that each expiry falls before, between and after the
segments of a call. `MaxTime`, `MaxTokens` (random ids), `MaxBoots` (restarts),
`MaxCounter`, `MaxSerial`, `MaxCreated`, `MaxOpened` and `MaxCalls` only make the state
space finite; they appear in the guards of the actions they stop. The proofs
hold for all of their values. Two cases are left to the proofs alone: the limit on
all API keys together cannot be exceeded by the two keys `principals` creates (the
limit per member can), and in `verifier` a login ends before its grant would, never
after it. `CHECK_DEADLOCK FALSE` is set where the model
really comes to rest: when the clock, the ids and the calls are used up, or
when the holder has been closed. Symmetry is used for interchangeable callers,
members and passkeys, never in a run with a liveness property.

The runs of the entry service start from empty tables, or from tables and a
session that registration and login would have left; `passkeys` starts with a
member who joined by voucher, so that further passkeys are within reach.
`principals` starts with a key that its member may hold no second of, since the
creation of the first would only repeat that of the second, and `system` after
the registration, which `join` looks at: there the other services only add to
the tables. `join` leaves `OtherServices` to the runs `login`, `credential` and
`service`; the last has them together with registrations.

### Fairness

`EntryService!FairSpec` is weak fairness of each call's continuation. The code
justifies it: the bridge process is killed at its timeout
(`src/voucher-bridge.js:21`), the store answers or fails (SQLite has a busy
timeout, the Turso client a network timeout), WebAuthn verification computes,
and a promise that is settled runs its continuation. Nothing forces a client to
call, a session to be revoked, or the clock to move. `EveryCallEnds` rests on
this alone.

`BrowserHolder!FairSpec` is weak fairness of the page's timer and nothing else:
neither the Worker nor the messages are assumed to make progress.

## Findings

`docs/voucher-entry.md:43` says of `finishRegistration` "Any failure leaves the
voucher unspent". The call returns `false` after the transaction has committed
when the challenge, the device authorization or the voucher has run out before
`publishedAt` (`src/entry.js:138-139`), and when the answer to a Turso commit is
lost (`src/turso.js:120-125`). The voucher is spent and the member registered.
The member can log in with the passkey, so nothing is lost but the certificate
and the session; it is the sentence that promises too much. Run
`voucher_unspent` shows it.

## Proofs

What TLAPS proves, for all values of the constants that satisfy the named
assumptions (`StoreAssumption`, `EntryAssumption`, `AccountAssumption`,
`IssuanceAssumption`, `ApiKeyAssumption`, `PrincipalAssumption`,
`HolderAssumption`, `SystemAssumption`), and without the bounds mattering:

### MembershipStoreProof

* `StoreTypeCorrect`, `TablesAlwaysAgree`, `StoreWithinCapacity`,
  `StoreNeverUndone`, `StoreImplementsMembership`, `StoreAdmitsOneToOne`.

`StepCases` reduces a step to a transaction with typed arguments. Agreement of
the tables is inductive together with the types: a registration adds a voucher,
a member and a passkey none of the rows has, a rebind keeps the keys of its row.
The capacities need that the tables are finite. The refinement maps an
admission to a row of `members`: a registration is an `Admit`, every other
operation stutters, as a rebind changes neither voucher nor member of a row.
`PromiseIsOneToOne` is proved of `Membership` alone and says what the promise
comes to.

### IssuanceProof

* `IssuanceTypeCorrect`, `NoReceiptReplayed`, `RetriesAreExact`,
  `ReceiptsWithinCapacity`, `LostAnswersCanBeFetched`,
  `IssuanceImplementsRedemption`.

The absence of a replay window is not inductive by itself: it needs to know
that the tables still remember. `Remembered` says that as long as a credential
is valid its result is stored and each of its receipts has a row that lasts at
least as long, since a credential ends with the first of its attestations
(`ValidUntilIsLeast`). It is preserved because a transaction prunes at a time
its call has read, which is never later than the clock (`ReadBefore`). A
production then finds the rows of every valid credential and cannot use their
receipts; and a stored result, even one that has meanwhile run out, has the
same end as any other credential of its operation, so an answer never
contradicts a valid credential. `LostAnswersCanBeFetched` is the same memory seen
by a retry, and `NoReplayWindow` makes what it finds the only one. On Turso what
`Sign` has found must still be so when `Commit` inserts: `SignedAlone` says that
the signed transaction is alone, because of the lock, and still as decided.

For the refinement a transaction that goes through must be a `Make` or a
`Repeat`. `SerialsSound` says that credentials are numbered as they are made, so
that a number tells which credential a stored result or an answer is, also when
its tables have forgotten it. `ReceiptsFree` turns `Remembered` around: a
production that finds room for its rows finds no valid credential on any of its
receipts. A commit whose answer is lost is the same step, with nothing handed
out; refusals and restarts are `Leave`.

### EntryStepsProof and EntryProof

* `EntryTypeCorrect`, `SessionsWithinCapacity`, `EntryImplementsStore`,
  `TablesSound`, `EntryKeepsPromise`, `EntryAdmitsOneToOne`;
* `ChallengesUsedOnce`, `OffersUsedOnce`, `PendingBounded`;
* `SessionsAlwaysBacked`, `CertificatesAlwaysHonoured`,
  `CredentialsAlwaysHonoured`, `CountersUsedOnce`, `LoginsAlwaysCounted`,
  `GrantsAlwaysLive`, `AskedAlwaysByLiveActors`, `ReservationsAlwaysHonoured`.

`EntryStepsProof` has one lemma per segment of a call. All conclude the same,
`EntryStep`: the call goes to a state with well-typed locals; it keeps its
reservation, takes one when there is room, or gives one back, and only then may
a session be added; and the tables do a step of `MembershipStore` or none.
`EntryProof` makes an invariant of this. The session limit is not inductive by
itself: a call that gives its place back may add a session only because
`reserved` counts exactly the calls in between, which is the other half of
`SessionCapacity`. `Started` says that a time kept across an await
(`at`, `cert.issuedAt`) is not later than the clock, which the store's
transactions require of their callers. A restart loses the memory and the calls
together, so the count stays right.

As every step of the service is a step of the store, `TablesSound`,
`EntryKeepsPromise` and `EntryAdmitsOneToOne` follow from the theorems of `MembershipStoreProof` without
looking at the service again.

That challenges and offers are used once rests on where an id is. `UseStep` says
of every segment that it takes one id from memory to its call, keeps it, passes
it on or drops it, or puts a fresh one into memory; `Drawn` says that no id in
use is above `tokens`, so a fresh one is not in use yet. A precommit that puts
its challenge back finds it nowhere else.

What a call has read before an await is used after it, while other calls change
the tables. `SoundStep` shows that what a call keeps is true of the tables when
it is read: a passkey of the member with at least that counter (`Backed`), a
voucher that lasts until the time kept (`Vouched`), a certificate within both
(`Honoured`). `Grows` shows that no transaction makes any of this untrue: a
spend and the binding of a member to its voucher are permanent, passkeys stay
and counters only rise. So what is signed or opened at the end of the call is
still true, and a counter that the store accepts is above those of all earlier
logins. `ReservationsAlwaysHonoured` needs that sessions are `Numbered` by the
ids drawn, so that the session of a call is a new one and takes up exactly the
place its reservation kept (`ReservedPlace`). `AskedAlwaysByLiveActors` rests on
`Heads`, which says of every segment from where to where its call goes, whether
it calls the store, and that the issuer is called from the segment that looks at
the actor again.

### AccountsProof

* `AccountTypeCorrect`, `ChallengesAnsweredOnce`, `AccountCountersOnce`,
  `AdmissionsAlwaysHonoured`, `AccountsKeepTables`,
  `FurtherPasskeysAlwaysSignedFor`.

As in the entry service, one lemma per segment has a common conclusion: where
the challenge of the call goes (kept, taken out of memory, or dropped), that a
new challenge has the next token, and that the tables do a step of the store.
`AnsweredOnce` needs that every id in use was drawn. For the counters the
invariant follows the snapshots: the passkey a challenge or a call has kept is
still in the table, of the same member, with at least that counter, since no
operation of the store deletes a row or moves a counter back. So a counter the
store has just accepted is above that of every earlier assertion, whatever the
snapshot said. For the admissions: what a holder was issued ends with the
voucher, the voucher's row stays, and a call between its two segments has been
shown a credential that lasts until the later end. That further passkeys are
signed for is a balance of numbers: what a member has (passkeys, registration
ceremonies, calls that hold a registration) against what allows it (its first
passkey, its accepted assertions). `Moves` lists the seven ways a step may change
the two sides, `StaysBalanced` shows that each keeps the balance, and one lemma
per action shows which of them it is for each member (`TallyStep`); that an
acceptance adds to the right side is where `AnsweredOnce` is needed. `SyncOnly`
says that only a Turso handle is ever retired and that the verifier never runs on
one; `SystemProof` needs it.

### PrincipalsProof

* of the keys alone: `ApiKeyTypeCorrect`, `RevocationIsFinal`,
  `ClockRevivesNothing`, `KeysWithinCapacity`;
* of the handler: `HandlerKeepsKeys`, `PrincipalTypeCorrect`,
  `KeysManagedBySession`, and with the first, `HandlerKeysWithinCapacity`, `HandlerClockRevivesNothing`,
  `HandlerRevocationIsFinal`.

The clock may move in any way. `IdsSound` strengthens the types: a key's id was
drawn, no two keys share one and none is that of a revoked key, as ids are never
drawn twice and a revocation deletes the only row there is. So a request that
starts after the revocation finds nothing, whatever the clock says. A
transaction that goes through leaves the floor at the clock or beyond, and is
refused below it.

`HandlerKeepsKeys` shows that every step of the handler is a step of `ApiKeys`,
so that the theorems about the keys alone hold under it. A key comes and goes only in the routes of a
session principal, whose request remembers the session its cookie named; the
other steps leave the keys alone or delete what has run out.

### BrowserHolderProof

* `HolderTypeCorrect`, `PromisesAlwaysAccounted`, `WorkerNeverAskedTwice`,
  `AnswersAlwaysTrue`, `HolderIsAtomic`.

The page waits for at most one call, and that call is in one place: its message
is on its way, the Worker works on it, or its answer is on its way
(`OneInFlight`). After a deadline, an error or closing the page ignores the
Worker for good, so a late answer meets no other call. From this `NeverBusy` follows;
and an answer under way is true when it is sent and stays true until it
arrives, because nothing else reaches the Worker meanwhile.

`HolderIsAtomic` goes step by step: a call is an `Invoke`; a message handled is a
`Perform` if the Worker answers at once and a stutter if it awaits; `Finish` is
then the `Perform`; an answer is a `Return`, or a stutter when the page is
closed; closing and the deadline are `GiveUp`. It needs `OneInFlight` (the answer
that comes is that of the pending call) and `Underway`: what an awaited accept
or restore found when it began is still so when it ends.

### SystemProof

* `SystemKeepsEntry`, `SystemKeepsAccount`, `SystemImplements`,
  `SystemKeepsTables`;
* `EntrySafeInSystem`, `AccountsSafeInSystem`;
* `CountersOnceByAll`, `AdmissionsAlwaysEarned`, `NoDrawnMemberAdmitted`,
  `RetiredTakesNothingNew`.

Each side was proved correct with the other as an assumption, and each must now
be shown to be what the other assumed: an argument in a circle, unless it is
made step by step. `SystemInv` is that argument: the invariants of both sides
together, and `Rooted` (no id of the passkey service is a root's; whoever is
registered or about to be is a root). From a state in which it holds, a step of
the entry service is one of its own, of which `EntryUses` says which transaction
it was (`EntryStepSeen`: a typed `EntryWrites` for the other side), and a step
of the others is `OtherServices` for the entry service, of which `AccountUses`
says the same (`AccountStepSeen`); `AcceptSeen` makes the acceptance of a minted
credential a `Hold`, since `CredentialsHonoured` bounds it by the voucher. So
both invariants are kept by each step (`EntrySees`, `AccountSees`,
`SystemInvInductive`), and `SystemImplements` concludes that every behaviour of
the whole is a behaviour of each model. `EntrySafeInSystem` and
`AccountsSafeInSystem` then need no further look at either side; the lemmas
`Same...` say that the two instances of the store are the same store.

The properties of the whole use more than either side knows. A counter
that either side accepts is in the table, and stays below whatever is accepted
next: `EntryUses` and `AccountUses` give the transaction, and the assertions of
one side meet the finished logins of the other (`CountersKept`). For admissions
the invariant `Earned` says that whatever a holder holds was minted for that
member with at least that validity, and so was what a call of the verifier has
been shown. That no account without a voucher is certified, credentialed or
admitted follows from `Rooted`: certificates and credentials are for members,
and a drawn id is never one. For `RetiredTakesNothingNew` the lemmas `CallHeads` of
both sides say where every segment leads when the handle is not `Usable`: away
from the store, or back without having called it (`Quiet`).

### What stays with TLC

Liveness (`EveryCallEnds`, `EveryCallSettles`) is out of the prover's reach.
Every other property that a passing run checks is also a theorem.

## Not modelled

* `src/http.js`: reading bodies, content types and response headers; routes
  that only pass a body to one operation of the entry service.
* `src/verifier.js`: the format of a presentation and what AnonCreds verifies of
  it; it is a member and a validity here.
* `src/voucher-bridge.js`, `native/voucher`: one process per call, without state.
* `src/receipts.js`: the algorithm of `issueOnce` in the memory of one process,
  forgotten at a restart.
* `src/holder.js`: the requests of a Node holder, one credential in one process
  without concurrency; what it accepts and presents is in `AccountState` and
  `Verifier`.
* `src/client.js`, `src/encoding.js`, `src/admission.js`, `src/cmsg-binding.js`,
  `src/profile-policy.js`, `src/requests.js`: stateless validation, encodings,
  signatures and calls of WebCrypto.
* the issuer's keys and their export; schemas, policies and their digests;
  packaging and release scripts.

## Plan

Done: every component with shared state has a module, a run and proofs; the three
services that share a store are composed; the store, the issuance and the
browser holder implement abstract specifications; and every safety property that
a passing run checks is proved. What remains:

* an abstract specification of the entry service's sessions as the HTTP handler
  sees them, which `EntryService` implements and `Principals` uses in place of
  its own few session actions;
* the passkey service and the verifier as clients of an abstract counter, so
  that `CountersOnceByAll` becomes a refinement;
* more of the stateless parts under "Not modelled", each a module of pure
  operators checked against a reference definition over bounded inputs.
