# A TLA+ verification of the COT/MTA demo

The repository converts the multiplicative shares `x` (Alice, the TypeScript
client) and `y` (Bob, the C++ server) into additive shares `U + V = x * y mod n`
by 256 correlated oblivious transfers over one TCP connection. This directory
models that program in TLA+, checks the models with TLC, and proves the main
results with TLAPS. `PROJECT.json` lists the runs, the mutants that show each
property can fail, the source lines behind every definition, the findings, the
hazards and the theorems.

## 1. Inventory

| part | source | state it keeps | operations |
| --- | --- | --- | --- |
| network client | `client/src/client.ts` 270-360 | `x`, the round, the `AliceOT` of the round, `uiValues`, `v`, `y` and the verdict if revealed | an event-driven process: one segment of code between two awaits |
| server | `server/src/server.cpp` 106-198 | `y`, `bit_idx`, the `BobOT` of the round, `mc_values`, `v` | a blocking process: one session, then exit |
| framing, client | `client.ts` 34-139 (`FramedSocket`) | `chunks`, `bufferedLength`, `ended` | `write`, `read` (`waitForBytes`, `consume`), three socket events |
| framing, server | `server.cpp` 36-100 (`Socket`, `read_framed`, `write_framed`) | the socket | `send`, `receive` |
| oblivious transfer | `ot_protocol.ts`, `ot_protocol.cpp` | `a` and `m0` at Alice, `secret_b_` and `decryption_key_` at Bob | `generateInit`, `process_init`, `processResponse`, `decrypt_message` |
| aggregation | the same files | none (loops over 256 values) | `computeAliceShare`, `compute_bob_share`, `verify`, `verify_mta` |
| client curve arithmetic | `client/src/crypto_ops.ts` | none | field and point arithmetic, double-and-add, compressed points |
| server curve arithmetic | `server/src/crypto_ops.cpp` | none | wrappers over trezor-crypto, an absent optional for infinity |
| codec | `proto_codec.cpp`, `cot.pb.*`, `proto/cot.proto` | none | one encode and decode per message |
| local mode | `client.ts` 232-268 | both sides' values | 256 transfers in one process |
| command lines, server life cycle | `client.ts` 156-230, `main.cpp` | options | parse, listen, accept one client |
| `math_check` | `server/src/math_check.cpp` | none | a test program |
| libraries | `server/external` | none | nanopb, trezor-crypto (third party) |

The two processes share nothing but the connection. The client sends
`SessionConfig`, then 256 times: `OTInit` (the point A and the bit index), waits
for `OTResponse` (the point B), and sends `OTEncrypted` (both ciphertexts). The
server then sends `MTAShare` (V) and closes, or, with `--debug-reveal`, takes a
`DebugRevealRequest` (x and U) and answers `DebugRevealResponse` (y and its
verdict). Frames have a length and no type.

What is hard: a client that can be told of the end of the connection at any await
(also one that is not a read), a server that closes right after its last write,
callbacks that run after the other side has already answered, a process that is
killed in the middle of the rounds, no timeout anywhere, a byte stream cut
arbitrarily, points whose sum has no encoding, uninitialised variables in the
server's aggregation, and the same arithmetic written twice in two languages.
`PROJECT.json` ("hazards") lists these at their lines.

What makes each part correct:

- *session*: no frame is taken for another; what Bob decrypts is correlated with
  what Alice aggregates; a client that completes has what the server computed and,
  unless it is killed before it prints, logs; nothing fails without a cause; every
  session ends.
- *transfer*: Bob obtains `m0 + bit * x`, or one of two collisions of the
  ephemeral points ends the session.
- *aggregation*: K correlated pairs are additive shares of the product.
- *framing*: the reads return the bodies written, in order, once, also those that
  precede the end of the connection, and none waits for bytes it already has.
- *client curve*: the operations are those of a group, and the encoding is
  invertible.
- *server curve*: multiplication, sum, negation and x coordinate over trezor-crypto are
  what the client's functions compute, whatever the carries between the limbs of a
  `bignum256` were, with an absent optional exactly where the client throws
  (`point_subtract` is not what the client's is: section 3, findings).
- *codec*: what one protobuf library writes the other reads as it was meant, no
  buffer of a message that is sent is too small, and the decoders tell apart the
  messages that one side sends, as far as anything does.
- *life cycle*: a server that is restarted gets its port, and a client that is
  connected is served or failed for a cause, and never left waiting.
- *math_check*: what it reports is true.

## 2. Modules

    Scalars            bits, sums and shares modulo N            (both languages)
     |-- CorrelatedOT  what a session promises                   (abstract)
     |    '-- ServerMTA     aggregation on partly reduced numbers (with Bignum)
     |-- CotOT         one transfer, over a group of prime order (with DoubleAndAdd)
          |-- CotSession     client, server and connection   --> CorrelatedOT
          |    '-- CotSessionInv    its inductive invariant
          '-- LocalDemo      both sides in one process       --> CorrelatedOT (whose variables it shares)
    DoubleAndAdd       scalarMultiply over any addition
    CryptoOps          curve arithmetic of crypto_ops.ts         (with DoubleAndAdd on its points)
     '-- CurveGroup    it is a group                             (and carries LocalDemo in MCLocalDemo)
          '-- CurveAgreement    the two languages compared       (with ServerCryptoOps)
    Bignum             bignum256 as far as the server relies on it
     '-- ServerScalars      scalar functions of crypto_ops.cpp       (instantiated by ServerMTA)
          '-- ServerCryptoOps    its points
    Framing            header and body
     |-- FramedSocket  server to client, byte by byte        --> FrameChannel
     '-- ReadFramed    client to server, byte by byte        --> FrameChannel
    FrameChannel       a FIFO of bodies                          (abstract)
    Protobuf           descriptors, nanopb and protobufjs on the wire
     '-- ProtoCodec    the functions of proto_codec.cpp
          |-- CodecExchange    one message across the two programs
          '-- MathCheck        the test program                  (with ServerCryptoOps)
    ServerLifecycle    servers, clients and ports around the sessions

`-->` is a refinement (`INSTANCE` with the abstract specification as a PROPERTY).
The `MC*` modules give the constants values for TLC; the `*Proofs` modules hold
theorems: `CotOTProofs` about `Scalars`, `DoubleAndAdd` and `CotOT`; `CorrelatedOTProofs` about
`CorrelatedOT`, `ServerMTA`, `ServerScalars` and `LocalDemo`; `AgreementProofs` about
`CryptoOps`, `CurveGroup`, `CurveAgreement` and `CodecExchange`; the others about the
module whose name they bear.

**CotSession.** `cpc` names the await at which the client is: `..W` for the
callback of a write, `..R` for a frame. `spc` names the `recv` at which the server
is, or the line of its log that reports a write (`printShare`, `printVerdict`). Each
action is the code from one such point to the next with everything it changes, for
example `ClientReadResponse` is lines 311-321 of `client.ts` including the exception of
`processResponse`. The server writes V and the verdict before it prints them
(`server.cpp` 179 and 181, 192 and 194), and may be killed in between: the client then
completes, and the log says nothing (`DoneMeansAgreed`). By log is meant what was
written to `std::cout`; a terminal shows it line by line, and a redirected log that was
not flushed may be lost with the process. A channel is a sequence of whole
frames (their bytes are FramedSocket and ReadFramed); `chunks` is what the 'data'
listener has queued. `DataArrives`, `EndArrives` and `ResetArrives` are the three
events of the client's socket; `EndArrives` rejects a read only if one is waiting.
Closing follows the kernel: a close leaves what was sent deliverable (`fin`); a
close with unread data, or a frame that reaches a closed socket, resets the
connection (`rst`) and loses what is in flight. When the server closes, a frame on its
way to it may be in its buffer already, for a reset at once, or arrive later, for a
reset after the `fin`. A `send` to a client that has gone returns an error or raises
SIGPIPE; both end the server and close its socket, and are one error here.
`ClientKilled` and `ServerKilled` may happen between any two actions. An uninitialised
`bignum256` is a choice from `Garbage`, and `CppVerifyMta` a choice of verdicts: two
congruent numbers may have different limbs, and `bn_is_equal` compares limbs.

**CotOT.** Points and their addition are constants, as are the hash and the cipher;
scalar multiplication is not: `MulG` and `Mul` are the loop of `scalarMultiply`
(`DoubleAndAdd`) on that addition. The assumptions are that it makes the points a
group of prime order N, in which the generator lies, and that encrypting twice with
one key gives the message back. What the protocol needs follows by proof: scalar
multiples of points are points, `a(bG) = b(aG)`, `(P + Q) - Q = P`. The server
multiplies with trezor-crypto, whose results have to be the same points
(`ServerPointsAgree`). Nor are the group laws taken on faith for the client's code: the
theorem `CurveIsAGroup` derives them from the formulas of `CryptoOps`, and run
`local_demo` carries the local mode out on them.

**Scalars.** The C++ aggregation is modelled with the direction `bn_copy` has in
trezor-crypto and with its variables uninitialised (`CppBobIteration`,
`CppVerifyMta`); the documented aggregation, which the TypeScript code follows, is
`ComputeAliceShare`, `ComputeBobShare` and `Verify`.

**FramedSocket, ReadFramed.** A write hands the kernel pieces of any size, and the
reader gets pieces of any other size. In the client, events wait until no
continuation is pending (promise jobs run before the next event), which is the
guard `rpc # "consume"`; each iteration of `consume` is a step. The check after the
await of `waitForBytes` repeats the condition under which the promise is resolved
and is not an action: `BufferAccounted` shows that it cannot throw. `sent`, `whole`
and `received` are history.

**DoubleAndAdd, CryptoOps, CurveGroup.** The loops are recursive functions over their
variables; `CryptoOps` instantiates `DoubleAndAdd` with its own points and addition;
`CurveGroup` adds a point to itself step by step and compares the algorithms with
the sum reached. What `CryptoOps` assumes of its constants is what is known of secp256k1
(section 4).

**LocalDemo.** One action per iteration of `runLocalDemo`: transfer `i` with its
exception, then the printed result. Its `x`, `y`, `us` and `mcs` (`uiValues`,
`mcValues`) are the variables of `CorrelatedOT`, so that the refinement maps each of
them to itself.

**Bignum, ServerMTA.** A `bignum256` holds a number below 2^270, and `bn_addmod` and
`bn_multiply` leave their result anywhere below twice the modulus: which of the two
numbers it is depends on carries between limbs. `Bignum` makes it a choice, so that
an expression has a set of results, and a property says that the set of what a
function of the server returns has one member. `ServerMTA` runs
`compute_alice_share`, `compute_bob_share` and `verify_mta` that way on what
`CorrelatedOT` hands out, and compares them with the residues that `CotSession` uses.
An uninitialised `bignum256` is nine arbitrary words of the stack. The properties are
about those that meet the preconditions of the functions they are passed to
(`BnMultiplicable`: limbs of 30 bits and a number below 180 N; `BnFits`: limbs of 30
bits); nothing is claimed of any other (section 5). It does the same with the scalar functions of
`ServerScalars` (`mod_add`, `mod_sub`, `mod_mul`, `mod_negate`).

**ServerCryptoOps, CurveAgreement.** The functions of `crypto_ops.cpp` over the
`point_add`, `point_multiply` and `ecdsa_read_pubkey` of trezor-crypto, which compare
coordinates as limbs and take (0, 0) for infinity. Encoded points have 33 bytes, so that
the 65-byte form that `ecdsa_read_pubkey` also reads does not occur. `CurveAgreement`
instantiates them beside the client's functions on the same curve, leaving `point_subtract` to
`MathCheck`, and runs a whole transfer with Bob's
half in C++ and Alice's in TypeScript.

**Protobuf, ProtoCodec, CodecExchange.** A message type is a function from field names
to descriptors, and a frame one from tags to wire fields (wire type and value): both
libraries write a field once and read by tags, so that the order within a frame says
nothing. A byte string is its size and what it contains. nanopb leaves out a number or
a boolean that has its default, and protobufjs writes every field. nanopb skips a tag
it does not know and refuses a known one with another wire type or size (an empty
string passes, for zeros); protobufjs goes by the tag alone. An encoder of the server that fails
returns an empty body, which every decoder accepts.

**ServerLifecycle.** `main` and `run` up to the accepted connection and after it:
the kernel of a listening server establishes connections by itself, whatever `run` is
doing, and puts them into a queue from which `Accept` takes one and never a second. A
session is one step, which ends in the ways `CotSession` shows. Ports are the
arguments modulo 2^16 at the server, which casts, and a check at the client, which
does not. An argument whose lower 16 bits are 0, for which `bind` would choose a port,
is excluded by `PortAssumption`. `sharing` is the meaning SO_REUSEADDR has in WinSock
(several sockets may listen) or elsewhere (only the past of a port is forgiven); that
elsewhere one socket at most listens on a port is the kernel's doing, a guard of
`Listen` and not a property.

**MathCheck.** Both tests with every scalar they may draw, and the line that says
that all tests passed.

## 3. Runs

| run | distinct states | what it shows |
| --- | --- | --- |
| `ideal` | 1 446 | the abstract specification gives shares of the product for each x, y and several masks; the server's scalar functions return the residue of the exact result; the C++ aggregation on partly reduced numbers returns what the model of the session computes from residues, if the uninitialised numbers meet the preconditions of trezor-crypto, and `verify_mta`, which compares numbers that are not fully reduced, accepts nothing else than congruent ones (and may refuse those) |
| `session_safety` | 221 204 | the session under every interleaving, close and kill: lockstep, correlation, agreement, root causes, refinement of `CorrelatedOT`, the inductive invariant; under fairness no session hangs, and a server that completed has served its client |
| `framed_socket` | 690 095 | server-to-client stream: nothing lost, repeated, reordered or left waiting |
| `read_framed` | 17 114 | client-to-server stream, likewise |
| `curve` | 960 | the client's arithmetic is a group of prime order, with an invertible encoding; the server's multiplication, sum, negation and x coordinate agree with it, and a transfer across the two languages gives both sides one key |
| `local_demo` | 6 276 | the local mode on that arithmetic verifies and implements `CorrelatedOT` |
| `codec` | 2 463 | every message, from one library to the other, arrives as it was built; only `OTEncrypted` and `DebugRevealRequest` pass for each other at the server |
| `server_lifecycle` | 201 040 | restarts, queues, failures with a cause, no client left waiting, and the inductive invariant behind the safety properties |
| `session_product`, `session_verdict`, `session_silent`, `math_check` | until violated | the findings |

Bounds, and why they are enough:

- *Ideal*: N = 7 and K = 3, all secrets, three masks, `Bound` (the numbers of 32
  bytes) 8, and garbage below the order, above it, at the last number below 180 N and
  at the first that is not, and beyond the width of a bignum; the properties claim
  nothing of the last, nor of the one before where `bn_multiply` gets it.
- *Session*: K = 3 rounds with N = 5, so that there is a first, a middle
  and a last round and two rounds can overlap; the loops of the code do the same in
  each of their 256 iterations, and the theorems remove the bound. Three ephemeral
  scalars of which two add up to N (1 and 4), so that both collisions happen; two
  secrets with different bits; two masks.
- *Framing*: bytes of one bit, so that a length of 3 spans two header bytes and a
  body can look like a header; an empty body and one of three bytes (and one of one
  byte towards the server), two frames (three towards the server): a chunk may hold
  the end of one frame and the start of the next.
- *Curve*: `y^2 = x^3 + 7` modulo 43, the same equation as secp256k1, a field that
  is 3 modulo 4 and a prime number (31) of points; all points, all scalars, all
  triples. `Bound` is 48: field and order are below it and it is below twice the
  order, as 2^256 is for secp256k1, so that each reduction can be one short.
- *Local mode*: K = 5 bits for scalars below 31; ephemeral scalars 3, 5 and 28,
  again with both collisions.
- *Codec*: three contents for each byte string, of which one is all zeros (a default
  value), all bit indexes from 0 to 255 and 2^31 - 1, whose varints take one, two and
  five bytes.
- *Life cycle*: two servers, three clients and a backlog of 1, so that one is served,
  one waits and one is turned away; the arguments 40000 and 105536, which are the same
  port to a server and not to a client; one server and one client may be killed. The
  check for deadlock is off here only: in the end all servers may have exited.

Each property of a passing run has a mutant of a mapped definition, a plausible
mistake (a bit order, one key for both messages, a missing await, a counter that is
not kept), under which TLC finds it violated.

**Fairness.** `session_safety` assumes weak fairness of the client's steps, of the
server's steps and of each kind of delivery: both programs run straight on until
they block, and TCP delivers what was sent or reports an error. Nothing obliges a
kill. The framing runs assume that the sender's kernel takes bytes, that they are
delivered, that promise jobs run and that the caller reads again, as `runNetworkDemo`
and `run` do. `server_lifecycle` assumes that a server and a client that were started
run until they block, that kernels answer and that sessions end (`EverySessionEnds`);
nobody has to be started, killed or restarted, and no attempt at a full queue has to
time out.

**Findings.** (1) `compute_bob_share` calls `bn_copy` with its arguments swapped, so
the V that is sent is not the documented share (`session_product`). (2) `verify_mta`
has the same mistake twice, so that a client prints the verdict `ok` of shares whose
sum is not `x * y` (`session_verdict`). (3) A read that begins after 'end' was delivered
never settles, and the client exits with code 0 and no message (`session_silent`); this needs the
write callback to run after the end of the connection is seen, that is, a write that
does not complete at once, as when the send buffer is full or completions are
reported by the event loop. (4) `point_subtract` of the server negates a coordinate
with `bn_subtractmod(&prime, &y, ...)`, which gives 3p - y, and `point_add` then
computes with a number that is not partly reduced: the difference is another point.
Nothing in the server calls it, but `math_check`, which the repository's README says
confirms the integration, does not call it either, and prints that all tests passed
whatever its tests found (`math_check`).

Findings 1 and 2 are also why `RoundsDetermineProduct` speaks of what the two sides
*hold*, and only `PrintedSharesMultiply` of what they print. Two remarks that no run
checks: `--debug-reveal` prints y at the client, which the repository's README allows
in one sentence and excludes in another (lines 188 and 191); and `server.cpp:132`
passes an `int` for a `socklen_t`, so that it needs WinSock or a cast to compile.

## 4. Proofs

All constants are arbitrary: any order N > 1, any number of rounds K with
`N <= 2^K`, any sets of scalars drawn, any group of prime order, any curve `y^2 = x^3 + 7`
of a prime number of points over a prime field that is 3 modulo 4, any hash
and cipher with the assumptions of `CotOT`, any number of servers and clients, any contents of byte
strings, and any set of processes that may be killed.

- `CotOTProofs`: `CorrelatedPairsMultiply`, K pairs that differ by the bits of y
  times x aggregate to shares of `x * y` (the two loops and the bit expansion of y
  are followed together, by congruences modulo N); `DoubleAndAddCorrect`, the loop of
  `scalarMultiply` is repeated addition (its invariant is that `result + k * addend`,
  what the loop still owes, stays the same, by induction on k); and `TransferCorrect`,
  one transfer hands Bob `m0 + bit * x` unless Alice refuses his point. Between the two
  lie the lemmas about a group of prime order: counts add up and multiply
  (`AddMultiples`, `MultipleOfMultiple`), so that Diffie-Hellman commutes; and no scalar
  takes a point to infinity (`NoScalarAtInfinity`: the least count that does divides N).

- `CotSessionProofs`: `SessionInvariant`, `Spec => []IInv`. None of the session's
  properties is inductive: that no frame is misread depends on what is in flight,
  which depends on how far both sides are. `IInv` (module `CotSessionInv`) therefore
  counts the frames each side has sent and taken at each control point (`Balanced`),
  from which the relative positions follow (`Phase`: never more than two frames
  under way to the server, or one to the client); it says what those frames are and
  what they carry (`ToServer`, `FromServer`), in particular that an `OTEncrypted`
  under way opens, under the key and the bit the server has, to the mask of its round
  plus the bit's multiple of x (`Opens`, by `TransferCorrect`). One step per action,
  one fact per conjunct it disturbs.
  From `IInv` follow lockstep, round skew, correlation, product, agreement, root
  causes and aborts, and `SessionRefines`: every step is a `Choose` or a `Transfer`
  of `CorrelatedOT`, or a stutter.

- `CorrelatedOTProofs`, on the abstract specification: it is type correct and, by
  `CorrelatedPairsMultiply`, gives shares of the product (that its pairs are correlated
  is what its `Transfer` says, and only a lemma).
  On the *server's numbers*: `ServerSharesCanonical`, for every uninitialised term that
  meets the precondition of `bn_multiply`. A loop over partly reduced
  numbers ends in a set of states, and the invariant of the loop (`RawLoopRun`,
  `RawLoopStandsFor`) says of the set of each iteration that it is not empty and that
  all its members stand for the residues that `CotSession`'s model of the loop has
  there: congruent to them and below 2N. One `bn_mod` (`ModThenWrite`), or two after
  a subtraction (`OppositeOfSum`, `SubtractThenWrite`), then leaves one result.
  `ServerVerdictIsOfResidues` says the same of `verify_mta`, in which nothing is reduced
  at the end: two partly reduced numbers can be equal exactly if they are congruent,
  and need not be (`PartlyReducedCompared`).
  `ServerScalarsExact` does it for the scalar functions. The assumption on widths is
  `N <= Bound <= 2N` and `3N <= Capacity`; in the code n < 2^256 < 2n and
  3n < 2^258 < 2^270, and `bn_subtractmod` needs it for its difference not to wrap.
  On the *local mode*: `LocalInvariant` adds to the invariant of `CorrelatedOT`, which
  every step of `runLocalDemo` keeps because it refines it (`DemoStepRefines`), where
  the loop is and which collisions it can have met. From it: the local mode implements
  `CorrelatedOT`, prints `ok` whenever it prints, and gives up on nothing but the
  collisions `a = b` (bit 0) and `a + b = N` (bit 1). The last follows from the
  order of the generator: `(a + b)G` is at infinity for no other sum of two scalars.

- `ServerLifecycleProofs`: `LifecycleInvariant`. That an unserved client has a cause is
  not inductive by itself: it depends on where the clients are. The invariant places every client: in the queue of the one server it
  connected to, once, or in that server's session (`QueueInv`, `ServingInv`,
  `ClientInv`); and a queue goes with its socket. From it `LifecycleUnservedForACause`,
  and `LifecycleRestartGetsPort`, an action property.

- `AgreementProofs`, on what the two programs have to agree on. *Messages*:
  `CodecInvariant`, that what is on the wire is the encoding of
  the message and what was received its decoding; so the properties become facts about
  a decoder after an encoder. These rest on three lemmas about the descriptors, which
  are the only place where the seven messages are told apart: the tags of a message
  differ (`TagsDiffer`), what nanopb leaves out is what either decoder puts in
  (`OmitsDefaults`), and each field has a largest encoding (`WireSizeBounded`), whose
  sums are below every buffer but that of `OTEncrypted` (`FrameFits`). From them
  `CodecCrossDecodes`, `CodecNothingFailsSilently` and `CodecOnlyNeighboursConfused`,
  for every content of the strings and every bit index.

  *Points*: that the arithmetic of `crypto_ops.ts` is a group, from its formulas alone.
  Congruence modulo `Field` is an equivalence that sums and products respect, and
  numbers that are not congruent to 0 cancel, because `Field` is prime. The loops of
  `modInverse` (each remainder is a multiple of the value) and `modPow` (`result *
  current^power` stays the same) are followed by induction, and Fermat's theorem, by the
  product of all numbers below `Field`, makes the root of the decoder a square root; hence
  `EncodingIsInvertible`. `AdditionAssociative` is the longest proof here. A line meets
  the curve in three points, so a sum is known by the slope of its line (`IsSlope`),
  whichever of the two formulas gave it; in the general case the slopes of the four lines
  of `(P + Q) + R` and `P + (Q + R)` satisfy polynomial identities that Z3 checks, and
  their differences then cancel. The remaining cases, in which two points are equal or
  opposite, follow from cancellation, `(P + Q) - Q = P`. `OrderTimesPoint`, that `Order`
  additions lead to infinity, is Lagrange's theorem: adding P walks in circles, all as
  long as the one through infinity, and the circles partition the curve.
  `GroupTypeInvariant` and `GroupInvariant` (`sum` is `n` times `point`) are inductive
  with these, and give `GroupLawHolds`; `CurveIsAGroup` says that
  all the assumptions of `CotOT` about a group hold on the curve, so that the lemmas of
  `CotOTProofs` apply to it, and with them `MultiplicationIsAddition`.

  *Keys*: `scalar_multiply_point`, `point_add`, `point_negate` and `get_x_coordinate` of
  `crypto_ops.cpp` return what their namesakes in `crypto_ops.ts` do, whichever of the
  numbers congruent to a coordinate the `bignum256` held (`LanguagesAgree`;
  `point_subtract` is finding 4). A transfer across the languages is then about indices: each point
  is k times the generator for one k modulo `Order`, two points have one x coordinate
  exactly if their indices are equal or opposite, and so the keys agree or differ as
  `KeysAcrossLanguages` says (`KeysAgreeAcrossLanguages`).

- `FramingProofs`: `HeaderRoundTrip`, the length a reader computes is the one the
  writer encoded, in any base; and `Layout`, the stream of all frames with the
  position at which each begins, which a write extends and whose next frame is unique.
- `FramedSocketProofs`: `SocketInvariant`, that what was returned, the bytes `consume`
  has copied, the chunks, the bytes under way and those that the server still sends
  lie next to each other in that stream. Nothing weaker is inductive: that a read
  returns the right body depends on where in the stream the first chunk begins. From
  it `SocketBufferAccounted` (with an induction over the chunks that `FlattenSeq`
  joins), `SocketEndLosesNoFrame`, and `SocketRefines`, that the whole is a queue of
  bodies. `ReadFramedProofs` does the same for the other direction. Both hold for
  every set of bodies that a header can announce, any number of frames, any base and
  any way to cut the stream.

Every invariant and action property of every passing run is a theorem. Only
model-checked:

- liveness, because fairness and ENABLED are out of the prover's reach:
  `EverySessionEnds`, `ServerDoneCompletesClient`, `FramesArrive` in both directions,
  `NoClientHangs`;
- the four violations, which are counterexamples.

What the proofs assume is what the modules assume of their constants, and TLC evaluates
these assumptions in the runs: on the small curve and, in the session runs, on an
additive group.

- *Curve* (`CurveAssumption`, `OrderAssumption`): `Field` is a prime that is 3 modulo 4, the generator lies on the curve, and `Order`, the
  number of points with infinity, is a prime above 2. These are published facts about
  secp256k1, whose parameters are `FIELD`, `ORDER` and `GENERATOR` in the code. That no
  point has `y = 0` follows from them (a prime above 2 is odd, and such a point is its
  own opposite while the others come in pairs), and is assumed for brevity.
  Lagrange's theorem needs that `ORDER` counts the points, and the square root of the
  decoder, a power of `(FIELD + 1) / 4`, that `FIELD` is 3 modulo 4.
- *Widths* (`FieldWidthAssumption`): `Field <= Bound` and `4 * Field <= Capacity`; in the
  code p < 2^256 and 4p < 2^258 < 2^270.
- *Groups* (`DoubleAndAdd`, `CotOT`): the laws of a group of prime order. For the client's
  curve they are the theorem `CurveIsAGroup`, and for the functions of the server that a
  session calls they follow with `LanguagesAgree`.
- *Hash and cipher* (`CotOT`): encrypting twice with one key gives the message back, which
  is what XOR does.

## 5. Not modelled

Randomness is a choice from a set, so nothing is said about secrecy or bias. Left out
are the wording of logs and errors, timing, SHA-256 and XOR themselves (operators with
assumptions), the conversions between hex text and bytes, and the insides of the
vendored libraries: limbs and carries are a choice among the numbers that they can
amount to, nanopb is what it writes, skips and refuses. The sizes and encodings of the
messages are checked message by message and not inside a session, where a message is
a record.

Of an uninitialised `bignum256` that breaks a precondition of trezor-crypto (a limb above
30 bits, or 180 N or more for `bn_multiply`) nothing is said. With assertions compiled
in, `bn_multiply` may end the server, as a kill does in `CotSession`; with `NDEBUG` the
share may be any number of 32 bytes, also one above the order, which `CotSession` (where
`v` is a residue) does not show. What holds of V there, that it reaches the client
unchanged, does not depend on its value.

Of the command lines only the ports are modelled; the other options are parsed by
sequential code that a test reaches. Servers listen on one address: the host argument,
and the result of `inet_pton` that nobody looks at, are not modelled. Frames whose
bytes were not produced by the other program are outside the model: each side is run
against the other one.

## 6. Plan

Done: the session with its abstract specification, its invariant and its proofs; both
directions of the framing, with theirs; the curve in both languages and their
agreement, with the proof that it is a group; the server's partly reduced numbers, the codec, the life cycle of servers
and the local mode, with their proofs; double-and-add in an arbitrary group;
`math_check`.

Next, in this order:

1. A session over the byte streams: `CotSession`'s channels replaced by
   `FrameChannel`, to state that the composition implements `CotSession`.
2. The rest of the command lines.

Each comes with its run, mutants, and proofs where recursion allows.
