# A TLA+ verification of pouch-network-provisioning

The repository provisions a blank device over Bluetooth LE.  A client (Python
CLI, Android library, iOS library) opens a link to a Zephyr device, exchanges
CBOR messages inside encrypted "pouches" cut into GATT-sized fragments, proves
possession of a PIN, pushes cloud credentials and a Wi-Fi configuration, and
ends the session.  This directory models the parts whose correctness depends on
order: threads, callbacks, failing storage, power loss, lost or late messages; and
the message codec, because a generated decoder and a hand-written encoder have to
agree.  Modules are checked by TLC on small instances; eight proof modules hold
theorems that TLAPS checks for every value of the constants.

Paths are given from the root of the repository's checkout (`src/src/rpc.c` is
the device library's `rpc.c`).  `PROJECT.json` maps every definition to its lines.

## The system and its parts

On the device three kinds of threads meet, without locks of the library's own:

* the pouch work queue runs the downlink handlers (`dispatch.c` and everything
  it calls) and the uplink flush (`rpc.c`), one after the other;
* the Bluetooth host and the system work queue run the connection callbacks
  (`adv.c`), auto-stop (`manager.c`) and the Wi-Fi retry (`wifi_config.c`); the
  net_mgmt thread brings the Wi-Fi driver's events;
* the application starts, stops, waits for and resets the manager.

| part | source | module | state |
|---|---|---|---|
| cloud credential store and its endpoint | `src/src/cred_store.c`, `src/src/handlers/cred.c` | `CredStore`, `CredStoreSessions` | modelled, proved |
| Wi-Fi configuration | `src/src/handlers/wifi_config.c` | `WifiConfig` | modelled, proved |
| Wi-Fi scan and the client's scan flow | `src/src/handlers/wifi_scan.c`, `flows.py` | `WifiScan` | modelled, proved |
| request/response exchange, both ends | `src/src/rpc.c`, `session.py` | `Rpc` | modelled, proved |
| dispatch, reassembly, authorization | `src/src/dispatch.c`, `src/src/handlers/auth.c` | `Dispatch` | modelled, proved |
| manager, advertising, control endpoint | `src/src/manager.c`, `adv.c`, `src/src/handlers/ctrl.c` | `Manager` | modelled, proved |
| device identity | `src/src/identity.c`, `pouch_prov_mgr_init` | `Identity` | modelled, proved |
| trust on first use, over the device identity | `tofu.py`, `info.py` | `Trust` | modelled, proved |
| segmentation and reassembly | `src/cli/src/pouchprov/pouchlink/sar.py` | `Transfer`, `SarSend`, `SarReceive`, `Exchange` | modelled, proved |
| message codec, all endpoints, version endpoint | `src/src/codec/*`, `src/src/handlers/*`, `codec.py` | `Cbor`, `ProvDecode`, `ProvEncode`, `ClientCodec`; `Handlers`, `Messages` | modelled; the handlers proved |
| BLE transport of the CLI | `transport/ble.py` | its writes and closed ends, in `SarSend` | partly |
| simulated Wi-Fi driver, simulated device | `src/sim/wifi/fake_wifi.c`, `transport/mock.py` | as environment of the above | partly |
| client flows, command line | `flows.py`, `main.py`, `auth.py` | `WifiScan`, `Handlers`, `Trust` | partly |
| Android and iOS libraries and apps | `GattClient.kt`, `PouchProvDevice.swift`, ... | - | not modelled |
| pouch framing, session encryption | `pouch.py`, `saead.py` and their ports | - | not modelled |
| certificates, Golioth API | `cert.py`, `golioth.py` | - | not modelled |
| samples | `src/samples/*` | the application of `Manager` | partly |

How they interact: the client sends a request pouch through SAR (`SarSend`); the
device hands its entries to `Dispatch`, whose handlers are `CredStore`,
`WifiConfig`, `WifiScan`, the authorization and `Manager`'s control endpoint;
their responses go through the queue of `Rpc` and back through SAR
(`SarReceive`).  `Identity` runs at start-up, before `Manager`, and `Trust` is how a
client and that identity come to a session key.  `Exchange` composes the two SAR
directions, `Trust` extends `Identity`, and `Messages` puts the client's codec and the
generated one at the two ends of the calls of `Handlers`; the other modules meet at
the promises named in their headers.

## How the code is modelled

*Steps.*  A step of a thread runs up to the return of a call that blocks:
settings and credential storage, the Bluetooth controller, an event wait.  The
straight-line code between two such calls is one step; other threads, a failing
call and a power loss come between.  In a client, a step ends at an `await`.

*Data.*  A certificate is the key or blob it belongs to, a cell stands for a
run of bytes, a nonce is a number, a fragment is its index.  Sequence numbers
keep their modulus and counters their width.  Logging and wording are left out;
encoding is left out everywhere but in `Messages`, which is about nothing else.

*History.*  Variables that no action reads (each module marks them) record what
a property needs: the configuration applied, the proofs compared, the bytes sent.
The acks of `SarSend` and `SarReceive` and the packets of `SarReceive` carry such a
history as a field (`count`, `high`): how many fragments the ack stands for, and the
place of the packet in the order of sending, of which the code sees a remainder.

*Mutants.*  Definitions whose comment begins "Mutant:" are wrong versions of the
definition that follows, used to show that a property can fail; no
specification uses them.

### CredStore, CredStoreSessions

One buffer per kind holds the persisted blob and receives the next one's chunks
(`buf`, `len`, `staged`, `expected`, as in `struct blob`); `flash` is the
settings backend.  `Write` is `pouch_prov_cred_stage` with its refusals;
`FinalizeBegin`, `FinalizeSave`, `FinalizeCommit`, `FinalizeSkip` and
`FinalizeSaveFails` are the loop of `pouch_prov_cred_finalize`; `Wipe*` is
`pouch_prov_cred_delete_all`, on either thread; `Reload*` is the settings load of
a restarted manager; `PowerCycle` keeps `flash` only.  `CredStoreSessions` adds
which kinds the current session wrote and what was stored when finalize began.

### WifiConfig

`conf`, `inflight`, `attempts`, `sta`, `retry` are the fields of `wc`.  Four
threads: `Set` and `Apply*` (work queue), `Result*` (net_mgmt), `Retry*` (system
work queue), `Reprovision*` (work queue or application).  `final_failure` reports
the failure (`FinalFailure`), deletes the credentials, which blocks and may fail
unnoticed (`FailureDelete`), and clears the slot afterwards (`FailureClear`).  The
deletions of an apply and of a reprovisioning may fail too.  `lapse` records that the
failure's deletion failed, or that the last apply came while one was under way.
The driver answers a connect in its own time, and a connect result carries no
identity.  `polling`, chosen at the start, tells a client that waits for the
outcome of an apply from one that does not.

### Rpc

The client's `request_entries` (`client.pc`), the device's work queue (`jobs`), the
handler that has run but not yet enqueued (`hand`), `rsp_fifo` and `rsp_ready`.
The flush takes the queue response by response, and waits for the first.
Transfers fail with or without the device having the request; a heap that runs
out loses responses; `Drop` resets the queue from the Bluetooth thread, also
between a handler and its enqueue, and so do the stops and resets of the manager.

### Dispatch

`Start` and `Data*` are `downlink_start` and `downlink_data` over entries cut in
every way, up to twice the buffer; `active` is the reassembly state.  The
challenge and proof requests of `auth.c` carry which challenge they answer; any other
handler answers ok or fails.  `answer` is the fate of the entry started last: not on an
endpoint, without an answer, cut off by a reset, answered with a status, or answered
into a heap without memory (`lost`).
`SessionEnded` and `ManagerReset` reset from other threads, also inside the handler
of a right proof (`verified`).  `Width` is the range of the proof-attempt counter,
a `uint8_t` in the code.

### Manager

`running`, `ended`, `autostop`, `adv_enabled` are the statics of `manager.c` and
`adv.c`; `loc` says in which blocking call each thread is.  `StopBegin` and
`StopFinish` are the two sides of `bt_le_adv_stop` in `pouch_prov_mgr_stop`.  The
controller may refuse to stop, and to advertise again (`ResumeFails`); `Recycled` looks
at `adv_enabled`, and what it then starts (`Resume`) may come after a stop.  `stray`
records a radio that such a stop has left on.  `Waits` describes the
application: TRUE as in the samples, which start again only after
`pouch_prov_mgr_wait`.

### Identity

`pc` walks through `pouch_prov_mgr_init`: load, import or generate, save the key, build
and save the certificate.  Every call that can fail has its failing action; a load that
fails leaves what it did not read, and `mgr_init` goes on as if nothing were stored
(`Load`; `unread` records a stored key passed over so).  `InitAgain` is an application
that calls `mgr_init` again after an error (recorded in `again`), `PowerCycle` a power
loss at any step.

### Trust

`load_or_create_server_identity` of each host writes its certificate and then its
key: `Create`, `WriteCert`, `OpenKey` and `WriteKey`, with the file in between emptied
but not complete (`Torn`).  `ReadInfo`, `Push` and `Collect` are `exchange_certs`, and
after `Collect` the session is secured.  `End` is a command that is done, fails or is
killed at any step; `LinkLost` and `Reboot` take the link away while the command goes
on with its files.  What pouch does with the server certificate is not in the
repository: it is stored as the simulated device stores it, and may or may not be
there after a power cycle.  One host is connected at a time, and one command at a time uses
a state directory: two first commands at once could each write one of the two files.

### Handlers, Messages, ClientCodec, ProvDecode, ProvEncode, Cbor

`Cbor` has items as trees with the sizes of their encoding, and the primitives of
zcbor that the generated code calls, with their backups.  `ProvDecode` and `ProvEncode`
are the generated functions, one operator per rule of `prov.cddl`; `ClientCodec` is
`codec.py`.  `Handlers` lets a client make any call of the flows to any endpoint that
was announced to it, in any order, through dispatch, handler and back: `Call`, the
early returns of `downlink_data` (`TooLong`, `Unauthorized`, `Refused`), one action per
operation of a handler, `Receive`, `Reconnect`.  The codecs of both ends are operators it
is given as constants; `Messages` has those of the code for values, and checks three
builds, with lengths at and beyond the limits.  The split is for the proofs: what
`Handlers` does with a codec does not depend on how the codec recurses.  What the
drivers, the store and the cryptography report is any value they may have.

### SarSend, SarReceive, Transfer, Exchange

`Transfer` is the promise: fragments are taken in order, each once, and the call returns
only when all are.  `SarSend` and `SarReceive` are the Python sender and receiver
against the device's end, which is pouch's: it is modelled from the simulated device the
client is tested with, and may also repeat acks, push fragments again, refuse or fall
silent (`faults`, chosen at the start).  `request` says what became of the request: the
simulated device handles it with the FIN (`DeviceFin`), whatever its flag; the fault
`strict` is the device of `protocol.md:109-110`, which drops the connection on a FIN
without IDLE.  Both implement `Transfer` under the mapping `got <- chunks`,
`out <- pc`.  `Exchange` sends a request and then receives its response, as `request_entries`
does (`Turn`), which raises when the link is gone by then (`TurnFails`).

### WifiScan

`do_start`, the driver's run, its events on the net_mgmt thread, status and pages of the
endpoint, and `scan` of `flows.py`.  A start is refused by a device without an
interface, which keeps its cache, or by the driver, after the cache was emptied.  A page
of more than `PageSure` access points may not fit its message (`PageUnfit`; five fit in
the code whatever their SSIDs, pages are of six); the client then raises.  `Overlap`
FALSE is a client that does not start a scan while the events of an earlier one are
still on their way.

## What is checked

| run | states | shows |
|---|---|---|
| `cred_store_bytes` | 1.7 M | staged bytes are those sent; buffers are never overrun; what is reported present is stored, with wipes, reloads, failing saves and power loss between any two settings calls |
| `wifi_config` | 2.1 M | an apply makes at most the configured number of connects; no attempt is orphaned; a polling client is told the truth about the storage, unless a failure's deletion failed or was overtaken (`lapse`), and every attempt ends |
| `rpc` | 321 k | as long as nothing failed on the link, the first poll brings a request its own answer; every exchange ends |
| `dispatch` | 214 k | handlers see whole entries only; gated endpoints need a right proof, of this session or one whose handler the reset fell into; proofs between resets are bounded; an entry is answered once its handler has returned, once, and only a reset cuts it |
| `manager` | 3.7 k | advertising follows running, and outlasts a stop in two ways only (`stray`); no event or auto-stop of one run reaches the next; `mgr_wait` returns; a device without a link is visible again |
| `exchange` | 2.7 M | both directions refine `Transfer`, across the wrap of the sequence numbers; the window is kept; without faults the exchange returns with the request handled, by a device that takes a FIN without IDLE |
| `messages` | 25 k | client and device understand each other's messages; both encoders agree; what is announced is served; nothing of an older configuration stays |
| `trust` | 4.8 M | both ends of a secured session derive its key from the same pairs and a device keeps one key, unless a stored key was not read (`unread`) or `mgr_init` was repeated (`again`); a stored key is replaced only when it was not read; a host presents one certificate |
| `wifi_scan_pages` | 279 | the client collects each access point once and in order; its scan ends: with the list, at its deadline, or with the error for a page that may not fit |
| `cred_finalize_atomic`, `wifi_connecting_settles`, `rpc_cleared` | | refuted statements, below |

*Bounds.*  Credentials: two blobs of different length, buffers of two, one and no
cell, so that chunks end before, at and beyond the end of a buffer, a write can be
restarted with another blob and one kind is skipped.  Wi-Fi: two configurations
of one SSID (storage is by SSID, so they collide), two attempts (one retry), two
results on their way; reboots are not counted.  Rpc: three requests over a served path, the end
request's and an unserved one, two polls, every fault.  Dispatch: eight entries of up to
four bytes against a buffer of two, two attempts and a counter that comes round at
four.  Manager: three runs.  Exchange: a request of as many fragments as sequence
numbers (the code's own limit, so that the number wraps with the last one) and a
response of one and a half times as many; windows of three, three acks under way.
Messages: the code's own sizes (384-byte messages, pages of six, 32-byte SSIDs),
configurations and chunks on both sides of each limit, and a map with a key of a
later revision.  Trust: two hosts, three server identities, two device keys and power
cycles: enough for an identity that is thrown away half written, one that replaces
it, and one of the other host; and for a device key lost before it was saved.  Scan:
five access points against a cache of four and pages of three, two of which always fit.

*Deadlock* is checked for `CredStore`, `WifiConfig`, `Dispatch`, `Manager` and `Messages`.  The
others stop: a transfer, the last request, boot or scan of the bound is over.

*Fairness.*  Weak fairness of threads that have work: work queues run their items,
blocking calls return, the Wi-Fi driver answers, a posted event wakes its waiter, a
client's task goes on.  Where a step may come out one way or another (a page fits or
not, a request is followed by its response or by a lost link, the controller resumes or
refuses), fairness is of the alternatives together and prefers none.  No fairness is
assumed of requests, of faults or of the client giving up, so that no timeout is counted
on to end a wait: in `Rpc` the client's time limits may strike but need not.

## What is proved

Theorems hold for every value of the constants under the named assumptions of the
modules (capacities, counters and bounds are naturals; `None` and `Zero` are told
apart from data).

* `CredStoreProofs`.  `TypeCorrect`: types with `staged <= expected <= Cap`.
  `PresentCorrect`: a reported credential is stored with that length.  This is not
  inductive: between a save and the RAM update behind it the length does not match.
  `StoredInv` adds `CommitIsSaved`, which says what finalize is about to set while a
  wipe may be under way on the same kind; the `Midway*` lemmas follow which thread
  is between the two halves of which kind; `CommitCorrect` states that part on its own.
  `StagedCorrect`: the staged prefix is what was sent, from `OverwritePrefix` (writing
  behind a prefix appends to it).  `FinalizeCorrect` is about the step that answers a
  finalize, and says nothing of the saves before it.  `FinalizeInv` follows the loop: each
  kind behind it is stored as staged, unless it was reloaded, or a wipe has cleared it or
  has still to (`Stored`, `Gone`); `AnsweredInv` keeps this while the ok is the last answer.
  `SentCorrect` joins the two: the settings hold what the client sent, byte for byte.
* `WifiConfigProofs`.  `AttemptsCorrect` rests on `AttemptsInv`: requests are at most
  one more than completed attempts, a due retry has its request still to make, and while
  no one is ending the attempt a retry is left.  The type of the counter needs it too
  (`Inductive`, `TypeCorrect`).  `AliveCorrect`: an attempt in flight always has a
  connect, a result, a retry or a clearing thread left; it is inductive given types.
  `StateCorrect`: what a polling client is told is true of the stored credentials and of
  the network, in the cases `lapse` leaves.  `PolledInv` adds that requests and the
  application take turns while a client polls (`Turns`), that at most one connect,
  result or retry is under way (`OneConnect`), and that it is of the configuration last
  applied, which stays stored until it fails (`OfApplied`).
* `RpcProofs`.  `AnswersCorrect` and `FirstPollCorrect` rest on `CleanInv`: while nothing has
  failed on the link, the answer to the request under way is in exactly one place (the
  work queue, the handler's hand, the fifo, the pouch) and no other is in any.  The
  properties alone say nothing of where an answer is before it arrives.
* `DispatchProofs`.  `HandledCorrect` and `AnsweredCorrect` from `EntryInv` (the buffer
  holds all that has arrived of the current entry, unless it overflowed; an answer is
  missing exactly while one is owed, `Owed`: until the last byte, or until the handler
  of a right proof returns).  `AuthorizedCorrect` from `ProvenInv`, with the one
  exception of `AuthorizedByProof`: a reset in the middle of that handler;
  `ProofsCorrect` from `CountInv`, for any width of the counter, up to the proof with
  which it comes round.  `GatedCorrect` joins `EntryInv` and `AuthorizedByProof` into
  what they are for: a gated handler starts only after a right proof, with the same
  exception.
* `ManagerProofs`, the manager.  `AdvertisingCorrect`, with the radios `stray` names
  excepted; `AutostopCorrect` from `ArmedInv`; `EndedCorrect` from `RunInv`, for an
  application that waits (`ASSUME Waits`).
* `ManagerProofs`, the endpoints.  `LastAcceptedCorrect` and `ServedCorrect` are about
  `Handlers` with any codecs, builds and configurations.  Their premises are that the
  ends understand each other (`RequestUnderstood`, `AnswerUnderstood`, which the run
  `messages` checks for the codecs of the code), that short answers fit their buffers
  (`AnswersFit`) and that channels have eight bits (`ChannelsFit`: the flows pass none,
  and a larger one would be cut); the last two are assumptions of `Messages`, which TLC
  evaluates.  The properties are about the time between calls, so the invariants say
  what holds during one: `AskedInv`, that the call under way is one the capabilities
  allow; `StagedInv`, that while an answer is on its way the device is ahead of the
  client by exactly that call; `ServedInv`, that the capabilities read are those of the
  build, and that an answer on its way tells no other.  That every answer is queued,
  also when a response does not fit, is part of it (`ReplyQueued`).  `ServedCorrect`
  excepts, as its property does, a secret in a build without `.prov/auth`.
* `ExchangeProofs`, requests.  `WindowCorrect` and `RequestCorrect`, the refinement of
  `Transfer`, from `SendInv`: packets on their way are the fragments behind those taken
  (`Numbered`), acks come in the order of what they acknowledge (`Counted`,
  `AcksOrdered`), and the limit the sender goes by is some ack's (`Credit`).  An ack is
  a remainder; its `count` says which number it is the remainder of, and that the
  request has at most as many fragments as there are sequence numbers makes the two
  agree.
* `ExchangeProofs`, responses.  `ResponseCorrect`, the refinement for responses of any
  length, where the sequence number comes round.  `ReceiveInv` says where in the order
  of sending the packets on their way are (`Line`) and which acks are under way
  (`Ordered`); two packets that could be confused are a whole modulus apart, which is
  more than the window allows (`InOrderIsNext`, from `ModSame` and `ModDistance`).
  `TypeCorrect` is for both directions; it needs more than two sequence numbers, as the
  code of a FIN has the same byte. `AfterLastNever`: nothing is taken after the last
  fragment.
* `ExchangeProofs`, both.  `ExchangeCorrect`: when `receive` returns, the device has the whole
  request and the client the whole response.  `WholeInv` adds to the two invariants the
  order of the two transfers and that each end has a beginning of its blob.
  `RequestHandled`: an exchange that returns without a fault of the request has had it
  handled.  `FinInv` says where the FIN is between the last ack and the response.
* `IdentityProofs`.  `KeyNeverReplacedCorrect`, also with repeated `mgr_init`, from
  `KeyInv` (once loaded, memory holds no key but the stored one, unless that was not
  read).  `CertCorrect` and
  `KeyKept` from `MirrorInv`, which says for each step of `mgr_init` how memory
  mirrors the settings, as long as `mgr_init` has not been repeated and no stored
  key has been passed over (`Mirrors`).  For
  `Trust`, `DeviceIsIdentity` shows that the composition implements `Identity`, so these
  carry over; `SessionCorrect` and `PresentedCorrect` then follow from `TrustInv`: a key file
  is only there with the certificate it belongs to (`FilesInv`), and the connected host
  knows what the device stores (`LinkInv`).
* `WifiScanProofs`.  `TypeCorrect`, with `Len(entries) <= ScanMax`, also for scans that
  overlap.  `PagesCorrect` for scans that do not (`ASSUME ~Overlap`, without which the
  property is false: see below).  `ScanInv` says what the cache and the events still on
  their way amount to together: the access points from the next one on, then the end of
  the scan (`UnderWay`), so that the finished cache is the first `ScanMax` of them (`Cut`),
  of which the client always holds a beginning (`Read`).

Only model-checked:

* liveness (`InflightSettles`, `ExchangeEnds`, `ExchangeReturns`, `WaitEnds`, `VisibleAgain`,
  `ScanFinishes`), as TLAPS does not reason about fairness and ENABLED;
* what the codecs compute (`RequestUnderstood`, `AnswerUnderstood`, `ResponseRoundTrip`,
  `SameEncoding`).  They recurse over the data they read (`Cbor`, `ClientCodec`), and what a
  recursive definition computes is out of the prover's reach.  The two theorems about
  `Handlers` rest on the first two.

## What does not hold

Each of these states what a document or comment says (`ConnectedIsStored` apart); TLC
refutes it.  The first
three have runs; the others are definitions of the modules to be given as the only
property of a configuration (constants as in the module's run, except as noted).

| property | what is said | what the code does |
|---|---|---|
| `FinalizeAllOrNothing` | `cred_store.c:5-6` "persisted atomically on finalize" | kinds are saved one by one; a failure or power loss leaves some replaced (`cred_store.c:160`) |
| `ConnectingSettles` | `protocol.md:147-149` poll "until `sta-state` is connected (`0`) or failed (`3`" | `final_failure` clears the slot after its deletion returns; an apply in between loses its attempt and stays connecting (`wifi_config.c:123`) |
| `ClearedOnDisconnect` | `manager.c:107` "BLE link dropped: clear authorization and any queued responses." | a handler running at the drop enqueues after the reset (`dispatch.c:178`) |
| `AuthorizationCleared` | the same | a proof's handler running at the drop authorizes after the reset (`auth.c:170`) |
| `FinalizeStoresThisSession` | `cred_store.c:164` "not (fully) provided this session" | staged counts survive a disconnect |
| `StatusReportsStored` | `prov.cddl:145-146` "stored DER length" | status reports staged counts (`handlers/cred.c:87`) |
| `BootsWithWorkingNetwork` | `protocol.md:204` "the device never boots "provisioned" without a working network" | credentials are stored before they are tried (`wifi_config.c:271`) |
| `FailedIsForgotten` | `wifi_config.c:120` "A failed connect must not leave the device "provisioned"." | the result of the deletion is ignored (`wifi_config.c:121`) |
| `ConnectedIsStored` | the other half of the same | the deletion of an earlier failure may come after the apply has stored the same SSID again (`wifi_config.c:121`, 271): connected, and nothing to boot with |
| `Lockstep` | `protocol.md:95` "do not send request pouch N+1 before receiving response pouch N" | a session stays usable after a request raised (`session.py:64`) |
| `EmptyOnlyAfterWait` | `rpc.c:10-13` "waiting up to CONFIG_POUCH_PROV_RESPONSE_WAIT_MS for the first response" | a semaphore count left from a drained response ends a later wait at once (`rpc.c:75`) |
| `EndStopsAfterQueue` | `ctrl.c:67` "let the manager stop after the response has been queued" | the manager stops first; dispatch queues the response afterwards (`ctrl.c:69`) |
| `WaitMeansEnded` (`Waits` FALSE) | `manager.h:64` "Block until provisioning ends" | a stop still blocked in the controller posts its event into the next run (`manager.c:208`) |
| `StoppedIsSilent` | `manager.h:50`, 53 "Start the provisioning service (advertising)", "Stop the provisioning service" | a stop reports the end also when the controller would not stop, and a resumption that had looked before the stop starts after it (`manager.c:214`, `adv.c:82-91`) |
| `AutostopWhenProvisioned` | `Kconfig:91-95` "after the terminal provisioning step" | reprovision leaves an armed auto-stop (`ctrl.c:43`) |
| `FinCarriesIdle` (of `SarSend`) | `protocol.md:109` "The client's final FIN **must carry the IDLE flag**" | the CLI writes a bare FIN (`sar.py:93`) |
| `ReturnsFromStrict` (of `Exchange`) | `protocol.md:109-110` "the device treats a bare FIN as failure and drops the BLE connection" | if so, no exchange of the CLI returns: the request goes with the connection; the simulated device takes the bare FIN (`mock.py:280`) |
| `GeneratedOnce` | `identity.c:5` "on first boot, generate a P-256 key pair" | a boot that fails to read the stored key generates another and saves it over the first (`identity.c:70`, 219) |
| `Persisted` | `identity.c:7-8` "Both the raw private key and the certificate are persisted" | a repeated `mgr_init` takes a value whose save failed for a restored one (`identity.c:219`) |
| `UnknownKeysIgnored` | `protocol.md:129-130` "decoders MUST ignore unknown keys" | the generated decoder reads the known keys in order and refuses a map with another (`prov_decode.c:223`) |
| `PagesFit` | `wifi_scan.c:26-27` "a conservative bound that keeps the encoded page within POUCH_PROV_MSG_MAX" | a page of six long SSIDs does not fit and is answered with an internal error; the client's scan raises and has no list |
| `CollectsAllPages` (`Overlap` TRUE) | `flows.py:33` "collect all result pages" | events carry no scan; those of an abandoned scan end the next (`wifi_scan.c:72`) |

Where such a case is excepted from a property that is checked (`AnswerMatches` and
`FirstPollAnswers` by `past`, `AuthorizedByProof` by `proven`, `StateIsTrue` by `lapse`,
`AdvertisingFollowsRunning` by `stray`, `KeysAgree`, `CertMatchesKey` and `KeyIsKept` by
`again` and `unread`, `KeyNeverReplaced` by `unread`, `VisibleAgain` by `radio`), the variable
names it, and the property says that there is no other.  `CollectsAllPages` is checked
for `Overlap` FALSE only.

Behaviour met while modelling that no document speaks of, and that the properties
leave room for:

* a device with a secret in a build without `.prov/auth` announces that no proof is
  needed and refuses every gated request (`version.c:54`, `dispatch.c:56-59`);
  `AnnouncedIsServed` excepts it;
* the schema allows a passphrase of 64 bytes, the handler one of 63; the channel is cut
  to eight bits;
* a sender whose FIN is lost returns as if it had arrived (`sar.py:86-96`), and a device
  that handles a request with its FIN, as the simulated one, then never handles it;
  `ExchangeReturns` says only that the exchange still returns;
* an entry that overflowed the buffer is answered as operation 0, whatever it was;
* a bare status is encoded as a control response, whose operation is at most 2: an error
  met in a request of a higher operation would get no answer at all (`dispatch.c:79-91`,
  `prov_encode.c:688`), though `peek_op` passes on up to 23.  No request of this revision
  has one, as `AnswersFit` says;
* the proof-attempt counter has eight bits and comes round with the 256th proof of a
  link (`auth.c:39`, 146); `ProofsBounded` is about the proofs before;
* a host whose command is killed while the key file is being written keeps a file that
  no later command can load (`tofu.py:58`).

## Not modelled

* *Android and iOS.*  SAR, session, flows and trust on first use are ports of the Python
  ones, with the identity kept in memory instead of in files.  Their GATT clients queue
  operations over the callbacks of the platform's Bluetooth stack; which callback
  comes after a timeout, and how late, is the stack's and not in the repository.
  The apps run one flow per button.
* *Pouch framing and session encryption* (`pouch.py`, `saead.py` and ports): layout and
  cryptography, each a call of one task; shared test vectors pin them.
* *Certificates, Golioth API, demo CA*: pure input and output, or written the way the
  server identity of `Trust` is.
* *BLE transport*: scanning, connecting and pairing are calls of bleak.
* *Samples, simulators*: they appear as the environment of the modules only.
* *Pouch itself* (GATT endpoints, its work queue, the stored server certificate) is a
  library outside the repository, modelled as far as this code uses it.
