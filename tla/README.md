# lz4-oxide in TLA+

Specifications, model-checking configurations and proofs for
[lz4-oxide](../src/README.md), a Rust port of liblz4. The library has no
threads, no clock and no storage of its own. What makes it hard is *resumption*
and *call order*: contexts that live across calls, data cut anywhere by the
caller, sizes that must be right before the work is done, and two sides that
must keep the same history.

Line numbers without a file are of `src/src/frame.rs`.

## 1. Inventory

| Part | Where | State it keeps | Operations |
|---|---|---|---|
| Frame compressor `Cctx` | frame.rs 348-772 | stage, preferences, staging buffer `tmp`, total size, block mode, history `dict` and `frame_dict`, codec stream (`dict_size`), content hash | begin, update (compressed, uncompressed), flush, end |
| Frame decompressor `Dctx` | frame.rs 807-1578 | 15-valued stage, frame info, remaining size, `tmp_in`, `tmp_out`, history, two hashes, skip flag | decompress, decompress_usingDict, getFrameInfo, reset |
| Frame helpers | frame.rs 97-345, 779-805 | none (CDict: its content) | error codes, block sizes, bounds, header_size, compress_frame |
| File layer | file.rs, ffi.rs 1505-1676 | a context, a buffer and its cursor, a failed flag | readOpen/read/readClose, writeOpen/write/writeClose |
| Block compressor, `LZ4_stream_t` | block.rs 79-1533, ffi.rs 401-500 | hash table, current offset, dictionary, table type | compress variants, continue, loadDict, saveDict, attach, resets |
| Block decoder | block.rs 1541-2158 | none | decompress, partial, with one or two histories |
| `LZ4_streamDecode_t` | ffi.rs 649-807 | prefix, external dictionary | setStreamDecode, decompress_safe/fast_continue |
| HC codec, `LZ4_streamHC_t` | hc.rs, ffi.rs | two tables, window limits, dictionary context | levels 1-12, loadDict, saveDict, attach |
| xxHash | xxh.rs | accumulators, partial stripe, lengths | reset, update, digest |
| Handles and allocators | ffi.rs 854-939 | block, size, hooks | create and free of every opaque type |
| C ABI layouts | types.rs, build.rs | none | compile-time probing |

How they interact: every C symbol is a thin wrapper in ffi.rs around one of
these. The frame compressor calls the block compressor with one stream per
frame and its own copy of the last 64 KB. The frame decompressor calls the
block decoder with its own copy of the last 64 KB it *handed to the caller*.
The file layer is a client of both frame contexts. All calls are synchronous.

Hard behaviour, and what correctness means for each part:

* **Compressor.** Input of any size passes through a staging buffer and comes
  out as blocks: nothing lost, repeated or reordered; block rules as announced
  in the header; one up-front size check that covers a whole loop of writes; a
  frame reported complete is complete; the history the codec counts on is the
  decoder's. Failures in the middle of a call sequence leave a context behind.
* **Decompressor.** Every field of a frame can be cut between calls, and the
  output too. The result must not depend on the cuts, nor on what the context
  decoded before; no byte past the frame may be consumed; hints must be usable;
  every frame comes to a verdict.
* **Block streams.** One hash table outlives the data it indexes: no entry may
  be taken for a position it does not mean, through resets, dictionaries, and
  offsets of 16, 31 and 32 bits.
* **Block compressor and decoder.** Every read and write in bounds for every
  input; what is written decodes to what was compressed; a word copied past the
  end of what was needed harms nothing that is still to be used.
* **`LZ4_streamDecode_t`.** It keeps addresses, not bytes: what a later block may
  refer to must still lie where it was decoded.
* **HC.** Shortcuts along a chain must not miss or invent a match, the optimal
  parser keeps one table through many rounds, matches are cut so that they
  follow each other, and the stream's indices, the tables and the caller's
  memory must keep meaning the same bytes.
* **File layer.** Short reads and writes, errors in the middle, trailing bytes.
* **Handles.** What an allocator gave goes back to it, with the same size.

The hazards, each at its line and with the properties that watch it, are the
`hazards` of `PROJECT.json`.

## 2. Modules

| Module | What it is |
|---|---|
| `FrameEncoder` | the frame compressor: state, one action per call and per phase of a call |
| `FrameEncoder_proofs` | its theorems: rules and bounds, content and history |
| `FrameFormat` | what a frame is made of, and what a reader makes of a run of its bytes |
| `FrameDecoder` | the frame decompressor: one action per stage of its loop |
| `FrameDecoder_proofs`, `FrameDelivery_proofs` | its theorems: buffers and history; the promise kept, and never beyond the frame |
| `FrameDelivery` | what a decompressor promises: the abstract specification |
| `WholeFrame` | compress_frame and its bound, made of FrameEncoder's calls |
| `FileReader`, `FileWriter` | the file layer, on top of FrameDecoder and FrameEncoder |
| `BlockFormat` | the LZ4 block format and what a block means: the reference |
| `BlockDecoder`, `FastDecoder` | one block decoded, by input size and by output size |
| `BlockDecoder_proofs` | that the decoder stays in its slices |
| `StreamPromise`, `StreamDecode` | `LZ4_streamDecode_t`: promise, and implementation over the caller's memory |
| `StreamState` | the operations on a compressor's state, as functions |
| `BlockEncoder` | compress_generic: one block, every table and limit |
| `BlockEncoder_proofs` | lemmas about what a block means and how long it is; that a block means its input, and fits |
| `BlockStream`, `LinkedBlocks`, `StateReuse` | three users of both: `LZ4_stream_t`, the linked blocks of a frame, states reused by one-shot calls |
| `BlockUsers_proofs` | that a call leaves a true table, and what follows from call to call for the last two |
| `HCMatcher` | the hash-chain search and its shortcuts |
| `HCParser`, `HCOptimal` | the lazy and the optimal parser, over any answers of the search |
| `HCOutput` | how HC blocks are written under the three limits |
| `HCParser_proofs`, `HCOutput_proofs` | theorems of the lazy parser and of what is written |
| `MidCompressor` | LZ4MID, levels 1 and 2, whole |
| `HCStream` | `LZ4_streamHC_t`: addresses and indices from call to call |
| `XXHash` | the streaming hashes |
| `Handles` | creation and release of opaque handles |

Composition by `EXTENDS`: FileReader on
FrameDecoder on FrameFormat; FileWriter and WholeFrame on FrameEncoder;
BlockStream, LinkedBlocks and StateReuse on BlockEncoder on StreamState and
BlockFormat; both block decoders and MidCompressor on BlockFormat; HCStream, HCParser,
HCOptimal and HCOutput stand by themselves. By `INSTANCE`: FrameDecoder implements
FrameDelivery, StreamDecode implements StreamPromise.

Seven `MC` modules make the instances for TLC. Each brings related modules together:
a variable says who is at work (a client of the frame compressor, a part of the
block compressor, a parser), the initial states choose it, and the next-state
relation is a disjunction of the instances' own, each with constants that suit it.
Parts that use the same state share the variables, as the clients of
`FrameEncoder` do; the others keep theirs still. Properties that are stated in an `MC` module name
those of the instances they stand for.

| MC module | Instances |
|---|---|
| `MCFrameEncoder` | FrameEncoder (layouts, histories, both block modes, tight destinations), WholeFrame, FileWriter; XXHash (32 and 64 bits), Handles |
| `MCFrameDecoder` | FrameDecoder (sound frames, damaged ones, two frames on one context), FileReader |
| `MCBlockDecoder` | BlockDecoder (narrow and wide matches), FastDecoder |
| `MCBlockStream` | BlockEncoder (one call; a room to fill; after a dictionary), BlockStream, LinkedBlocks, StateReuse |
| `MCStreamDecode` | StreamDecode, for ring and for free callers |
| `MCHCMatcher` | HCMatcher (one buffer, dictionaries, runs that begin in one), HCStream |
| `MCHCWrite` | HCOptimal, HCParser, HCOutput, MidCompressor |

### FrameEncoder

Variables are the fields of `Cctx`; `call` is the running call (its phase, what
it has left to read, its destination's capacity and how much it has written).
`update` is split where the code is: flush on a mode change (659-662), complete
the staging buffer (668-686), whole blocks (689-694), the autoFlush tail
(697-702), buffering, hashing and returning (705-715). `flush` and `end` are
calls of their own; `end` and a mode-changing `update` begin with the same flush
actions, as the code calls `flush`. Every early return is an action or a
disjunct.

Bytes are numbered by their place in the input and carry the mode of the call
that fed them; nothing else about data matters here. How far a block compresses
is a nondeterministic size `c`, from 1 to the block's own size, which stands
for a block stored verbatim (`make_block` keeps a result only when it is
smaller, 584). `dictSize` is `StreamState::dict_size`, with what load_dict,
compress_continue and save_dict do to it; the hash table is left out.

Ghosts: `header` (preferences at begin), `content` (bytes in blocks so far),
`sealed` (end returned a complete frame) and `clean`, which goes FALSE when a
failed call damages the frame: a begin that rejects its block size after
overwriting the preferences (423-429), or an end that flushed a block and then
found no room for the end mark (746). Properties speak of clean frames; what
happens to others is modelled and not judged.

A destination overrun aborts in Rust (slices are checked), so a call that wrote
past its capacity takes no further step.

### FrameFormat, FrameDecoder, FrameDelivery

A frame is a sequence of items laid out at positions, and its bytes *are* their
positions. A decoder that gathers exactly the positions of an item has that
item; anything else is garbage (`Recover`). A cut that loses, repeats or
misplaces a byte therefore cannot go unnoticed, and a checksum is the sequence
of what was hashed.

`FrameDecoder` has one action per stage of the loop at 1092-1409. A call is
opened by `Decompress`, runs passes until `Stop`, `Complete` or `Fail`, and
leaves what it did not take. Decoding a block (`Decoded`) gives its content when
the decoder has the history the block was made with, other bytes when it has
other history, and an error when it has too little; a damaged block gives
either. getFrameInfo's three cases are actions: refused, decoding the header,
and the zero-length decompress call (1041-1056). `tmpOut` holds what is not yet
handed over. After an error the client resets the context.

`FrameDelivery` says what is promised: content in order, complete only when all
of it is out and nothing is wrong with the frame (or checksums were waived),
rejected only when something is; damaged bytes never come out when a block
checksum covers them before decoding. `DeliversInOrder` is
`Delivery!Spec`, an `INSTANCE` under the identity on `frame`, `out`, `verdict`
and `lenient`: every pass of the loop is a step of the promise or a stutter.

### Files and whole frames

`FileReader` adds to the decoder a file of frames, a position, the `src_buf` with
its cursor, and `fread`, which may give less and then sets an error flag that
stays. One `LZ4F_read` is a loop of refills and of decompress calls, each a run of
FrameDecoder's own actions. `FileWriter` does the same for writing: its buffer has
the size of compress_bound for one block, the pieces of a write pass through it,
and an `fwrite` may fall short, after which the client may go on. `WholeFrame`
has the preference fix-ups of compress_frame (779-805) and its bound, on a context
left anywhere by calls before.

### Blocks

`BlockFormat` says what bytes are a block, and `Expand` what it means after a
history. Everything about blocks is compared with it.

`BlockDecoder` follows decompress_dict step by step: token, literals, match, by the
shortcut, the wild copies and the careful paths, with margins of 5, 8, 12, 32 and
64 bytes as in the code. The buffer is a sequence that includes the prefix,
the output and what lies behind; `reach` records how far a step read or wrote, so
`InBounds` speaks of over-copies too. In-place decoding has the block at the end
of the same buffer. `FastDecoder` is decompress_fast_with, with its scratch buffer.

`BlockEncoder` follows compress_generic: probing with growing steps, the tables of
16-bit, 32-bit and 32-bit-with-history entries, matches in the prefix, in a
dictionary and in an attached stream, catch-up, and writing under the three output
limits, down to the byte count where a call gives up or cuts. Hash values are a
parameter. 64 KB, 1, 2 and 4 GiB are the constants `Window`, `Fast`, `Half`, `Wrap`.

`StreamState` holds the fields and each operation as a function of them (load_dict
in both passes, renormalize, prepare_table, fast reset, save_dict). `BlockStream`
puts them over the caller's memory and keeps `heard`, the window of whoever decodes
the blocks; `LinkedBlocks` over the frame's own vector; `StateReuse` over a state
that one-shot calls share.

`StreamDecode` has a client's memory, two addresses and two sizes; its client
follows one of the two disciplines lz4.h allows. `StreamPromise` keeps only the
window of content. The refinement maps the promise's window to what the client's
memory holds at those addresses, so it fails as soon as something there is
overwritten or misaddressed.

### HC

`HCMatcher` is insert_and_get_wider_match for one call: insertion up to the
position, the chain, `chain_swap`, `pattern_analysis` with its jump to the start of a
run, dictionary segment, attached context, backward extension. Compared with all
positions of the history. `HCParser` and `HCOptimal` take any answer the search may
give (a choice of length, and of how far the bytes agree beyond it) and follow the
control of their loops. `HCOutput` counts the bytes of what they write.
The three parts meet at these open choices: a parser is right for every answer of
the search, and the search gives only such answers (`TrueMatches`).

`MidCompressor` is compress_mid whole, with tables, bytes and history, because it is
small enough; tables may also hold what another level put there. `HCStream` keeps
what lies between blocks: addresses, the four indices, attached contexts, the
highest index in the tables. Each byte of memory is the time it was written, so a
reference to the wrong place or to overwritten bytes shows.

### XXHash and Handles

`XXHash` leaves the arithmetic symbolic: an accumulator is the sequence of words it
took in, a digest the record of all that goes into it. What is checked is where
each byte ends up, over states that are fed in pieces, copied and reset, with a
length that wraps. `Handles` tracks for every handle whether hooks or a Box made
it, its size, and an audit of what the hooks have out.

## 3. Runs

Every action and disjunct fires in a passing run. Deadlock is checked everywhere;
`Finished`, `Done` or `Rest` is the client that has stopped.

| Run | Properties | Over | States |
|---|---|---|---|
| `frames` | `TypeOK`, `CapacityRespected`, `BoundAccepted`, `HeaderHonoured`, `HistoryAligned`, `InOrder`, `SealedComplete`, `EveryBlockUnmixed` (a step's), `EveryCallReturns` (liveness); of WholeFrame and FileWriter `UsersServed`; `HashesInStep`; `HandlesAgree` | every layout into capacities 0..32; dictionaries of 0 to 3 units and blocks over four windows; both modes, refused calls, declared sizes right and wrong; compress_frame on a context left anywhere; one short fwrite and writes after it | 235,822 |
| `decoding` | `TypeOK`, `StaysInFrame`, `HistorySeeded`, `DeliversInOrder` (refinement), `Decides`, `ReadReturns` (liveness), `FileReadInOrder`, `FileShortMeansEnd` | sound and damaged frames in pieces of 0, 1, 5, 30, 80 bytes and room for 0, 1, 8; two frames with resets at any point; files of up to three frames, cut or damaged, one failing fread | 109,210 |
| `decodes` | `InBounds`, `Sound`, `Complete`, `PartialExact`, `FastDecodes` | blocks of one and two matches around every margin, all kinds of history; every cut, every byte replaced, smaller rooms; in place; every partial target | 91,574 |
| `compresses` | `RoundTrip`, `BlocksFit`, `EveryTableHonest`, `EveryDecodable`, `Remembered` | all 13-byte inputs of two letters, periodic ones, rooms from 0 to the bound; dictionaries loaded, saved, attached; three calls on a stream, the last of them a block, from two index offsets; four linked blocks; five calls on one state | 292,028 |
| `decodesOn` | `KeepsPromise` (refinement of StreamPromise) | six blocks round a ring, four anywhere, some damaged | 49,243 |
| `searches` | `TrueMatches`, `NonePassedOver`; of HCStream `HistoryShared`, `DictionarySeen` | with and without each shortcut, clean and dirty chains, one buffer, dictionary, context; any four calls on a stream | 546,805 |
| `hcWrite` | `SequencesFollow`, `NeverDearer`, `ParserEnds` (liveness), `OutputFits`, `MidRoundTrip` | every answer of the search in inputs of 26 and 22 bytes; lengths around each step of the encoding; LZ4MID on inputs, dictionaries, attached streams and tables of another level | 530,704 |
| `modeSwitch`, `prefixReach`, `mixedLinked`, `longFrame`, `runAcross` | one each, violated | see the findings | |

### Bounds, and why they are enough

* Frames: `K64` stands for 64 KB (2, 4 or 12 bytes) and block size 5 is four of
  them, as in the code; headers and checksums keep their real 4 and 7-19 bytes.
  `MaxFed` of two to four blocks meets every path of `update`. `Caps` straddles every
  bound these sizes give. Pieces of 1, 3, 5 bytes cut every field in several places;
  30 and 80 reach the in-place branches. One getFrameInfo per frame; a client
  that asks again of a frame with a dictionary is left out of `HistorySeeded` (section 4).
* Files: `MaxFaults` 1, at any transfer; a fault is sticky in the reader, and in
  the writer everything after the first one is the same case again.
* Block decoding keeps all margins real, and the lengths in the runs are chosen on
  both sides of each. `Window` is 24 where a match must be able to leave it.
* Compression keeps MINMATCH, MFLIMIT, LASTLITERALS and the 15 of a token; windows
  of 8 to 24 bytes make matches fall out of reach, tables of 3 to 16 slots make
  entries collide, skip triggers of 2 make steps grow. `Fast`, `Half` and `Wrap` are
  small enough for a three-call stream to cross them, and `Offsets` puts streams
  right before each. In `hcWrite` the optimal parser has `RunMask` 4: prices are honest only while
  the literals that close the table (TRAILING_LITERALS, 3) are fewer than RUN_MASK,
  as in the code (`MaskAssumption`); `NeverDearer` is false with 2.
* `MaxCalls` is three to six: a history is made, moved and used by three.
* Offsets that reach before the history (`OverSpec` of `MCBlockDecoder`), frames with a
  block past the codec or longer than an index (`FrameDecodable`, `LongSpec`), tight
  destinations in both modes (`TightSpec`) and runs that begin in a dictionary (`AcrossSpec`)
  are the subjects of the findings, kept out of the runs that pass.
* `XXHash`: stripes of four lanes of one byte, `MaxFed` 18 is over four stripes.

### Fairness

A call, once made, runs on the thread that made it: weak fairness of the running
call's steps, for the frame compressor in both modes (`MixedStep`), a file's write
(`FileStep`) and read (`Reading`), the decoder's passes (`FedPass`), and each of the
two HC parsers (`Working`). Nothing is assumed of the caller or of `fread`, with one exception. For a
verdict on a frame (`Decides`) there is strong fairness of `Fed`: a client without a
verdict keeps making calls that offer at least a byte and room for one, whatever
empty calls it makes between them. `Fed` is disabled while a call runs, so weak
fairness would let endless empty calls satisfy it. Without such a client nothing
obliges the decoder, which only runs when called.

## 4. Findings

Each is a run that ends in a violation of a claim of the source.

1. `modeSwitch`: **a mode-changing update can overrun a destination it
   accepted.** `update` compares its destination with the bound once (648) and then
   flushes the buffered bytes as a block of their own (659-662). The bound counts
   buffered and new bytes as if they shared blocks; `compress_bound`, described as
   the worst case (254-256), does not count the extra header either. In the
   code it is a slice index panic.
2. `prefixReach`: **an offset may reach before the history.** With a prefix
   dict_size counts the prefix that low_prefix already allows for (block.rs:1604,
   1609, 1834), so a match up to a prefix's length too far passes.
3. `mixedLinked`: **in a linked frame a block after a stored one can decode to other
   content.** `uncompressedUpdate` never reaches the codec, `set_history` appends the
   block all the same, and `save_dict` only takes the smaller number, against the
   comment at 630-634: `dict_size` no longer says where `dict` lies. The next
   compressed block looks its indices up in the wrong bytes, also in the
   comparison that block.rs:434-436 relies on.
4. `longFrame`: **a linked frame longer than the index is wide** (4 GiB) is never
   renormalised (block.rs:883): entries of the lap before are taken for
   matches, or, in a debug build, the addition panics.
5. `runAcross`: **a match longer than the bytes that agree** when a run of one
   byte begins in the last three bytes of a dictionary (hc.rs:861-878).

The models show these too; no run is kept for them, and each is reached with the
constant or the property named here:

* A second getFrameInfo after the header runs a zero-length decompress (1044) that
  moves the stage past `Init`, and `decompress_usingDict` takes its dictionary only up
  to `Init` (1086; the comment at 1084-1085): `HistorySeeded` with `MaxAsks` 2 and without
  its conjunct on `asks`.
* Bytes behind a finished frame fail the read, where file.rs:106-107 says that a
  read stops there; what the read had already put in the buffer is not counted.
* A small read can come back short although decoded bytes are left (file.rs:82),
  when the file ends after a block; file.rs:74-75 says a short return means end
  of input. It takes a file that is cut right after a block; `FileShortMeansEnd`
  asks for all of the content only when the file is complete and sound.
* With a free hook alone, a Box is handed to that hook (ffi.rs:918, against 908):
  `HandlesAgree` with an allocator of one hook.
* A context that rejected a header it decoded in place is freed with stage 0, as if
  its frame had been finished (1097; ffi.rs:1404-1405).
* An HC stream takes unwritten bytes for history after
  `LZ4_compress_HC_continue_destSize` wrote less than it was given (ffi.rs:168), and the
  caller goes on with a short part of the rest: `HistoryShared` with `Habits` {"leaves"}.
* `LZ4_saveDictHC` on a new stream starts the indices at 0 (ffi.rs:3241), the value of
  every empty entry, against hc.rs:25-26: `Habits` {"new"}. LZ4MID then finds a match
  at distance 0, which hc.rs:521 asserts never happens.

Observations, modelled and not counted as findings:

* The hint of `StoreCBlock` counts a block's checksum twice (1286-1292), so for a
  last block it may ask for 4 bytes beyond the frame; `StaysInFrame` allows that.
* `end` without an open frame writes an end mark and succeeds (741). `flush` tests the
  stage after the buffer (721-726); the proofs show that the test never fails.
* A truncated file reads as a clean end of input. Closing a writer after a failed
  write answers Ok without a footer.
* A failed or empty decode at a new place forgets the older of the two runs of
  `LZ4_streamDecode_t`; a fast_continue of size 0 at a new place drops all of it.
  Decoding into a ring makes overlapping slices of output and history.
* createCDict_advanced ignores its allocator.
* `LZ4_compressHC2_continue` passes a capacity of 0 and so always fails. The comment
  at ffi.rs:244-246 says that the raw HC2 calls do "no auto-init, no external-dict
  handling"; the code below (265-270) does both. They never reload indices.
* saveDictHC of part of a prefix while a stream is attached leaves the attached
  dictionary at the wrong distance for a block right behind the saved bytes;
  `HCStream` leaves this caller out (guard of `SaveDictionary`).
* loadDictHC when indices are reloaded resets favor_dec_speed. An attached
  dictionary is dropped when a stream with a start address (resetStreamStateHC)
  gets its first block elsewhere.
* "Fill dst exactly" (hc.rs:1288) is not always possible, for instance with 16 bytes
  left: `FillsUp` allows for one byte where the length needs another one.
* LZ4MID reads an attached stream's table as its own kind whatever level filled
  it (hc.rs:1000): the entries are mere candidates then, and `MidRoundTrip` covers it.

## 5. Proofs

Checked by TLAPS for every value of the constants. Apart from the named
assumptions (`ASSUME` in the module that declares a constant), a theorem says
itself what it supposes: of the frames, calls or jobs that the instances list,
that they are ones the program can be given. TLC evaluates each of those suppositions on the
instances it runs.

### Frame compressor: `FrameEncoder_proofs`

From `K64Positive`, `HashUnitPositive`, `ModesKnown`, `PrefSetTyped`, `SizesNatural`.

* `TypeInvariant`, `TypeCorrect` (`TypeOK`). `TypeOK` is not inductive: an update that
  completes the buffer takes `maxBlockSize - Len(tmp)` bytes from its source, and
  that is a natural number only because an open frame buffers less than a block
  and a call in phase "fill" is an update. `Phases` and `Buffer` say that.
* `HeaderRules` (`HeaderHonoured`), from `Agreed`: a clean open frame has the
  preferences of its header and with autoFlush an empty buffer.
* `BoundSuffices` (`BoundAccepted`): `compressBound(n)` covers what update will check. With
  `Agreed` it is a fact about `CompressBoundInternal`, monotone in what is buffered
  (`BoundMonotone`); the division lemmas (`DivMod...`) prove uniqueness of
  quotient and remainder from linear facts.
* `Capacity` (`CapacityRespected`): no call writes past its destination when only
  compressed mode is used. The invariant `CapInv` adds `Room`: at each phase, what is
  written plus what the rest of the call can still need is within the capacity.
  `Needed(r, p)` is that need; `BoundCoversLoop` relates it to the bound, `NeededWhole`
  and `NeededTail` say how a block reduces it. The hypothesis on `Modes` is
  necessary: finding 1 is its counterexample.
* `NothingLost` (`InOrder`) and `CompleteWhenSealed` (`SealedComplete`). Neither survives a
  step on its own, because a block may take bytes from the buffer, from the source, or
  both. `Content` is about `Bytes`, what is in blocks, then in the buffer, then in the
  unread rest of the running update: these are numbered 1, 2, 3 (`Numbered`), and the
  steps of a call only move the borders between the three (`Moving`). `Hashing` says that
  the checksum is behind by the piece the update was given, `Untaken` that an update
  takes nothing before its loop, `Sealing` what end left.
* `OneModePerBlock` (the action property `BlocksUnmixed`), from `Unmixed`: what is buffered was fed
  in the mode of the blocks of now, and a call in its loop has that mode.
* `HistoryHonest` (`HistoryAligned`): the codec's history is the decoder's, where all blocks
  go through the codec or none is linked. Finding 3 is what happens otherwise.

### Frame decompressor: `FrameDecoder_proofs`, `FrameDelivery_proofs`

From `BlockUnitPositive`, `OffersNatural`, and `FramesAssumption`: the frames are laid out as
the format says.

* `BuffersLargeEnough` (`TypeOK`, whose last conjuncts say that no buffer holds more than
  was allocated for it). A context keeps its buffers from frame to frame and grows
  them only when the new frame needs more (1142-1148), so that the buffers at work are
  those of any earlier frame, and the proof has to remember what they can be:
  `Allocated` says that both were made together for one of the four block sizes, with or
  without a linked frame's window. The four differ by more than that window, hence a larger
  block never takes a buffer made for a smaller one as large enough. `Provided` compares with
  the frame that runs, `Gathered` bounds each field being gathered in pieces.
* `HistoryKept` (`HistorySeeded`), from `Seeding`: up to `Init` the history is the
  dictionary, or is about to become it with the next decompress; from the first block on it is
  the end of dictionary and output together, at least a window of it or all there is.
  `EndsMoves` says that cutting the window from what was kept is as good as from all of it.
* `DecodingKeepsPromise` (`DeliversInOrder`: the specification implements `FrameDelivery`) and
  `NeverBeyondFrame` (`StaysInFrame`). These also suppose `FramesWellFormed` and `AskedOnce`: a frame is one
  that a compressor wrote, or such a frame with one of the faults of `FrameFormat` (TLC
  evaluates this of the frames in the run), and getFrameInfo is called once at most for a frame with
  a dictionary (section 4 has what happens otherwise). The invariant `PlaceInv` adds to the
  buffers and the history where the decoder *is*: `Positioned` names, for each of the 15
  stages, an item of the frame that has just begun, is half gathered or is half out, and the content given
  so far is that of the items before it (`Where`). `Known` is what the decoder has found
  out by then: how much is left of a declared size, that the checksum is of what was given, that no
  damage has gone unnoticed which the client asked to be told of. A pass of the loop goes from place to
  place, and `Outcome` says of every pass which step of the promise it is. `Recovered` is
  where the cuts disappear: whoever has gathered an item's positions has that item.

### Block decoder: `BlockDecoder_proofs`

From `WindowAssumption` and `CallsAssumption`, for calls whose block does not lie in the output
buffer (an in-place call may read what it has written, and is left to TLC).

* `SlicesKept`: neither the fast paths nor the careful ones read past the block or
  write past the room, over-copies included.
* `MemorySafe` (`InBounds`): and no match begins before the history, if none of it is a
  prefix or it is a whole window; otherwise it may begin up to the length of
  the prefix too early and no earlier, which is finding 2 with its exact extent. `Overreach` is
  that length in the invariant, `Ahead` and `WithinSlices` the rest of it.

### Block compressor: `BlockEncoder_proofs`, `BlockUsers_proofs`

The first part of `BlockEncoder_proofs` is a library about the reference: what `Yields` gives when a sequence
is added (`Content` grows by the literals and a copy from what is there), how long a length's
`Extension` is, how long the bytes of a list of sequences are. These are recursive functions.
Induction over numbers is stated for sets (every set of numbers has a least element), as
no theorem with an operator for a parameter can be used.

From `SizesAssumption` and `ProbeAssumption`, `JobsAssumption` (every job is what one of the
constructors makes: sizes that go together, entries of what was seen, indices within their width)
and `HashAssumption` (a hash is an entry of the table; nothing else of the hash function matters;
it is about all sequences of bytes, so TLC cannot evaluate it, and the runs' hashes are taken `% HashSize`).

* `NothingMisread` (`RoundTrip`): what a block means after the history is what was
  compressed. The table is *not* assumed to be honest: an entry is a guess, and what makes a
  match true are the comparisons. The invariant's `Sound` therefore speaks of the match in hand
  (`InHand`: distance, agreement with `Text`, which is history and input as one, and `Covering`
  after the walk back), of entries only that they are not ahead (`UpTo`, so that a distance is
  never zero), and of the sequences so far (`Written`). A match that begins in the dictionary
  and ends in the block is split where the code splits it. The guard `HistoryWhole` is
  the property's own: a history of which a part was given up is a matter of streams.
* `EveryBlockFits` (`InRoom` and `Succeeds` for any history, `BlocksFit` for a whole one). Where the
  room is that of `compress_bound` the code checks nothing, and the proof has to
  pay for every byte: `Paid` says 255 × written ≤ 256 × consumed, which a sequence of at least four
  bytes keeps and which with the last literals gives n + n/255 + 16. `Closed` keeps room for the last
  literals, and the distance of the last match from the block's end, `Opened` what a
  token without its match has taken.

`BlockUsers_proofs` goes on from there to what is carried from call to call. Both invariants contain
`EncoderInv`, which is that of one call, together with what it leaves of its state (`Moved`).

* `TableOfTheSeen` (`NothingAhead`): after a call, however it ended, no entry is at or beyond the index
  at which the next call begins.
* `TableSpeaksTrue` (`TableHonest`): an entry that is still in the index space is the hash of the bytes
  at its place. It also supposes `JobsPrimed`: the table the call is given is true of the history
  the state was told of (`Truly`; TLC evaluates this of every job in the run). An entry is put for places
  of the input only and its hash depends on those bytes alone (`SameHash`); what was there
  before keeps its place when the input is added behind it.
* `LinkedBlocksDecode` (`RoundTrip`, `BlocksFit`, `TableHonest`, `NothingAhead`, `LinkedDecodable` of
  `LinkedBlocks`), from `BlocksAssumption` and `ShorterThanIndex`. `Told` is what keeps the
  parties together: the stream counts exactly the window the frame keeps, that window is an end of
  the decoder's, and the table is true of it. load_dict establishes it in both its passes, a block adds itself
  on both sides, and save_dict with set_history cut the same bytes off. `Takes` bounds the
  index by the blocks made. Both hypotheses are necessary: a block that goes past the
  codec (`past`) breaks `Told`, which is finding 3, and a frame longer than an index is wide is finding 4.
* `ReusedStatesCompress` (`RoundTrip`, `BlocksFit`, `TableHonest`, `NothingAhead`, `Remembered` of
  `StateReuse`), from `InputsAssumption`: inputs of at most 0x7E000000 bytes (block.rs 58, refused
  at 850) and a state that is started over above 1 GiB make less than 4 GiB. prepare_table either clears
  the table or moves the index space beyond all of it, also when the call before failed and whatever type
  of entry it used; `Recalls` says that what this input puts in is not lost again.

### HC: `HCParser_proofs`, `HCOutput_proofs`

* `ParserInvariant` and `SequencesRight` (`Follows`, `EndKept`, `InHand`: what the run calls
  `SequencesFollow`), from `InputAssumption` and `OptimalAssumption`, for any answers of the search. `OneInHand` and
  `TwoInHand` say what the lazy parser may hold at its three labels: how much the second
  match starts behind the first, and that the one put aside (`m0`) is where it can still be
  taken back.
* `BlockWritten` (`OutputFits`), from `CallsAssumption` and `TriedAssumption`: `RoomLeft` is a debt
  argument like `Paid` for the unlimited case and the room of the last literals in the others,
  `FarFromEnd` the end-of-block rules also when a match was cut.

### Model-checked only

* Liveness (`EveryCallReturns`, `Decides`, `ReadReturns`, `ParserEnds`): the prover does not
  handle fairness and ENABLED.
* Clients and their parts: `UsersServed`, `FileReadInOrder`, `FileShortMeansEnd`,
  `HashesInStep`, `HandlesAgree`.
* `BlockDecoder`'s `Sound`, `Complete`, `PartialExact` and `FastDecodes`: they compare with
  `Recover` over all bytes, a second recursion next to the decoder's own.
* Streams over a caller's memory: `Decodable` and `HistoryShared` of `BlockStream` with its renormalisation,
  attached streams and overlapping blocks (so `EveryTableHonest` and `EveryDecodable` are proved of the
  calls, the linked blocks and the reused states they speak of, and checked of this part), `KeepsPromise`
  (refinement), `HistoryShared` and `DictionarySeen` of `HCStream`.
* The HC search (`TrueMatches`, `NonePassedOver`), the optimal parser (`NeverDearer`, and its part of `SequencesFollow`),
  and `MidRoundTrip`.

No module declares a RECURSIVE operator, which would be out of the prover's reach: recursion
is by recursive functions and folds.

## 6. Plan

Done: all parts modelled; proofs of the frame compressor, the frame decompressor with its
refinement, block decoder, block compressor from one call to linked blocks and reused states, lazy parser
and HC output.

Proofs that would come next: `BlockStream.Decodable`, for which `TableSpeaksTrue` and `Told` are the steps
of one call; `BlockDecoder.Sound`; `HCStream`'s `HistoryShared` and `IndexFits`;
`Handles.AuditAgrees`.

### Not modelled, and why

* The values of hash functions and of xxHash rounds: arithmetic over contents, for
  which the repository's differential tests are the better instrument. Hashes are
  parameters, accumulators symbolic.
* The parsers composed with the search: the product is out of TLC's reach at sizes
  where anything happens. The open choice of answers covers more than the search gives.
* Levels: the table of search depths per level (hc.rs 57-173) and the frame's mapping
  of a level to an acceleration are data; runs use both sides of what they decide.
* ffi.rs wrappers that only forward a call or check a pointer.
* Type layouts and their probing (types.rs, build.rs): no state. Bench, fuzz and
  generator tooling: not part of the library. Wording of errors.

## 7. Checking it

```
tlc -workers 2 -config MCFrameDecoder_decoding.cfg MCFrameDecoder
for m in *_proofs.tla; do tlapm $m; done
```

Definitions marked *Slip* are plausible bugs, each paired in `PROJECT.json` with
the definition it would replace and the property that then fails.
