# Ordiknots in TLA+

Ordiknots stores files in Bitcoin transactions in two ways, reads them back,
and keeps an index of the files it finds in the chain. This directory holds
TLA+ models of the program, the TLC runs that check them on small
instances, and proofs of every safety property they check, for every size.

Paths such as `indexer/mod.rs:152` are below `src/src/`; the repository's own
README is `src/README.md`.

## 1. The system

| Part | Code | State it keeps | Operations |
|---|---|---|---|
| Indexer | `indexer/mod.rs` | loop positions, `last_height`; all volatile | `sync`, `process_block`, `listen_for_new_blocks` |
| Index database | `indexer/mod.rs:13-80` | `KNOTWORKS_TABLE`, `STATUS_TABLE` (redb; each write is one committed transaction) | `store_transaction`, `update_last_indexed_block`, `get_last_indexed_block` |
| Chained OP_RETURN encoder | `techniques/chained_op_return/encode.rs` | `continuation_amount`, the last transaction | `chunk_data`, `create_first_tx`, `create_next_tx` |
| Chained OP_RETURN decoder | `techniques/chained_op_return/{decode,detect}.rs` | the chunks collected, the current txid | `follow_chain`, `find_continuation_output`, `extract_op_return_data`, `detect` |
| P2WSH encoder | `techniques/p2wsh_fake_multisig/encode.rs` | an ephemeral key | `split_data_for_inputs`, `build_multisig_witnessscript`, `create_funding_transaction`, `create_spending_transaction` |
| P2WSH decoder | `techniques/p2wsh_fake_multisig/{decode,detect}.rs` | none | `decode`, `detect` |
| Technique dispatch | `techniques/mod.rs` | none | `encode`, `decode`, `detect`, `detect_technique` |
| Wallet, fees | `utils/wallet.rs`, `utils/transaction.rs` | none; the wallet is the node's, and nothing locks its coins | `select_largest_utxo`, `select_utxos_by_amount`, `calculate_fee_from_weight` |
| Broadcast | `utils/broadcast.rs`, `main.rs:138-148` | the position in the list of transactions | `broadcast_or_dryrun`, one call per transaction |
| Command line | `main.rs` | none | `encode` with or without broadcast, `decode`, `index run`, `index server` |
| Web server | `server.rs` | shares the database with the indexer; per request a read transaction and the cards made so far | `list_knotworks`: each knotwork decoded again and rendered |
| Bitcoin node | external | chain, mempool | RPC calls; the chain and mempool move on their own |

How they interact. Everything talks to one node by blocking RPC calls, each of
which may fail, and between any two calls the node may accept transactions,
mine blocks or reorganise its chain. The indexer calls detect and decode for
each transaction of each block; the decoder makes RPC calls of its own. The
database is the only state that outlives the process. `index server` runs the
indexer in a background task whose result nobody reads, beside the web server
which reads the same tables. The encoder produces transactions that spend each
other, and the command line broadcasts them one by one.

What is hard:

- **Crashes and retries in the indexer.** Entries and the status are committed
  separately; a block may be processed again after a crash, after an error in
  the listener, or because of `--from`.
- **Several records of one fact.** `last_height` in the listener against
  `last_block` in the database; `continuation_amount` against the value of
  output 1; the fee put on the funding outputs against the fee taken later.
- **Reading a moving node.** The decoder reads the mempool once and the blocks
  later; a transaction may move from one to the other meanwhile.
- **Boundaries.** A shorter first chunk, a padded last one, a split of data over
  inputs with a prefix only in the first, trailing padding to strip.
- **Several processes.** Two runs of `encode` on one wallet choose coins that
  nothing locks; a web request reads the table while the indexer writes to it.
- **Money.** Fees depend on weights, and weights on signatures whose length is
  not known until they are made.

What makes each part correct: the index claims no block whose knotworks it has
not recorded (or warned about), its entries are right and stable, it gets to
every block; decoding returns the encoded file or an error, returns the file
when it is published, and ends; each format gives back what it was given; every
transaction is funded and pays about the fee asked for; what `encode` announces
has been published; a page shows the index of one moment, with nothing missing.

## 2. The modules

```
                 Catalogue <----------------- Server --> MCServer  (server*)
                 ^  (implements)                 \-----> Rendering
 BitcoinNode --> Indexer --> MCIndexer                       (indexer*)
      |          ^  (implements)
      |        Ordiknots --> MCOrdiknots                     (ordiknots*)
      |          | (extends)
      \--------> ChainDecoder --> MCChainDecoder              (decoder*)
                 | (extends)
              ChunkCodec --> Techniques --> Formats --> MCFormats
 Knotwork -->                ^                            (formats, p2wsh_trailing_zero)
              P2wshCodec ----/
 Funding --> ChainFunding --> EncodeFunding --> MCFunding     (funding)
         \-> P2wshFunding ----/
 Publisher --> MCPublisher                                   (publisher)
```

Theorems are in modules beside these, which extend them:

```
 NodeProofs --> IndexerProofs             ProofLemmas --> FundingProofs
    |  |             ^ (instance)              |  |  \---> PublisherProofs
    |  \-------> OrdiknotsProofs <-- FormatsProofs |
    \-------------------------------------> ServerProofs
```

Three levels describe the indexer. *Catalogue* is what a reader of the database
may rely on; *Indexer* is the code with the decoding of a transaction as one
step, and implements the Catalogue; *Ordiknots* has the decoder's calls inside
that step and implements the Indexer. *Server* is composed with the Catalogue
instead of the Indexer: whatever holds for it beside every process that behaves
like the Catalogue holds beside the indexer.

**BitcoinNode** (external). `chain` is the sequence of blocks above genesis,
`mempool` the unconfirmed transactions; `Submit`, `Mine` and `Reorg` move them.
A block is a set of transactions and the OCEAN marker of its coinbase. `Reorg`
replaces the tip by two blocks in one step, as the node does under its lock;
transactions return to the mempool. Eviction and replacement are not modelled.

**Indexer.** `table` and `lastBlock` are the database; the rest is the state of
the process. One action per stretch of code that ends with a commit or a call
to the node: `Start` (command line), `LoadStatus` (`sync` up to its loop),
`FetchBlock`, `DecodeOk`/`DecodeErr` for one transaction, `Store` (commit of an
entry), `Advance` (commit of the block's height, next height), `Final` (`sync`
after its loop), `Poll` (one turn of the listener). `BlockFault` and
`StatusFault` are the two kinds of errors: the first ends `sync` but only
interrupts the listener, the second ends both (`update_last_indexed_block(..)?`
in the listener leaves the function). `Crash` keeps the database only. What
`detect_technique` and decoding answer for a transaction are constants
(`Detected`, `Genuine`), except that the decoding of a genuine knotwork may fail
because a call failed. `warned`, `skipped` and `reorged` are history variables:
the transactions with a warning, the heights a `--from` passed over, and the
transactions of the blocks that a reorganisation exchanged.

**Catalogue.** The abstract index. `Find` writes an entry that says where a
transaction is, `GiveUp` records a warning, `Claim` moves the last block to a
height up to which every block is accounted for or was passed over by a `--from`,
`Drift` is the node. No program counter, restart or retry. `Indexer!Cat` is the
instance, with `warned`, `skipped` and `reorged` as the excuses.

**Knotwork, ChunkCodec, P2wshCodec.** The two formats as pure functions, and what
they have in common (`ORDIKNOT_PREFIX`, the answers of a decoder). Of the first:
`ChunkData` (`chunk_data`), `EncodeChunk`, `OpReturnScript`,
`ExtractOpReturnData`, `Detect`, `ExtractChunk`, and `Assemble` (what `decode`
makes of the collected chunks). Of the second: splitting over inputs, fake keys,
the witness script, detection, and decoding with its removal of trailing zeros.
Bytes are numbers, and the constants of the code are CONSTANTS, so that the same
definitions serve with the real sizes (`Formats`) and with tiny ones
(`ChainDecoder`). The sizes of the decoder are separate definitions, as in the
code.

**Techniques, Formats.** `Techniques` is `techniques/mod.rs` and the `decode`
command: what each technique makes of a file, as transactions with the scripts
of their outputs and the witnesses of their inputs; which technique a
transaction is detected as; what decoding returns. `Formats` makes every file
length up to `MaxFile`, with 0 to `MaxNulls` zeros after it, a state.

**ChainDecoder.** `decode` as a process with one RPC call per step. `pc` names
the next call. Transactions carry the scripts that ChunkCodec gives them.
Calls that only look up something fixed by the call before (a header by its
hash, a block by its hash) are one step with it. `whole` is a history variable:
the file was published when the decode began and nothing has happened since
that excuses a failure.

**Funding, ChainFunding.** `Funding` is what both encoders do with money:
`calculate_fee_from_weight`, and how far two estimates of one fee may be apart.
`ChainFunding` has the amounts of the chain: `FirstTx` is `create_first_tx`
(or the only transaction), `NextTx` is `create_next_tx`, each followed by
`Made`, what `encode` does after it. A transaction is signed once to be weighed
and once for good, so each step takes two weights.

**Ordiknots.** Extends ChainDecoder and takes an instance of Indexer, whose
`pc`, `cur` and `faults` are called `ipc`, `icur` and `ifaults` here.
`DecodeBegin` is the call of `decode` in `process_block`, `DecodeReturn` its
return; in between the decoder makes its calls while the node moves. What
Indexer takes as constants (`Detected`, `Genuine`) the codec defines.
`SystemCrash` ends the walk with the process. `unsure` is a history variable:
the knotworks that the decoder could not be expected to find.

**P2wshFunding.** Extends `Funding`. `SelectUtxos`, `Fund`, `Spend`: the amounts of the funding
and the spending transaction, with the weights of three rounds of signing.

**EncodeFunding.** The two together, as `Technique::encode` (`techniques/mod.rs:20`)
puts them: a run of `encode` takes the steps of one technique, which its `status`
tells, and the variables of the other stay idle.

**Publisher.** Several runs of `encode --broadcast` over one wallet and one node.
A run builds all its transactions in one step (`EncodeChained`, `EncodeP2wsh`:
the coin is read from `list_unspent`, and nothing the node does later can change
what was built and signed), then `Broadcast` submits one per step. `Acceptable`
is the node's answer: inputs exist, are unspent and can be signed for, no dust,
and `WithinLimits` for unconfirmed chains. `BroadcastFault` is a call that
fails, before the node has the transaction or after; `Kill` ends a run. An
output has a `key`: the wallet's, nobody's (OP_RETURN), or the run's own - the
P2WSH key that only the process has. Fees are one constant here, so output 1 of
transaction i of a chain holds `CONTINUATION_AMOUNT` for i = 1 and
`CONTINUATION_AMOUNT - i * Fee` after it: `encode` takes the fee of the first
transaction off before it makes the second (`encode.rs:91`), which takes its own off
again (`encode.rs:276`). `CoversFirst` and `CoversChain` are the two checked subtractions.

**Rendering, Server.** `Rendering` has the pure functions of `server.rs`
(`is_image`, `is_text`, the preview, `html_escape`) and when `render_content`
panics. `Server` has one request at a time through `Ask`, `BeginRead` (redb's
read transaction: the table of this moment), `ReadEntry` (decode, which may
fail, and render), `Answer` (sort and return) and `Close`; `Meanwhile` is a step
of the Catalogue. The files are constants, `file[t]` being what decoding
returns: that decoding returns nothing else is ChainDecoder's `OkIsTheFile`.

## 3. What the runs check

| Run | Question | States |
|---|---|---|
| `indexer` | Do crashes, restarts, retries, `--from` and a reorganisation lose a block that the status claims (`NoSilentLoss`), falsify an entry (`EntryAccurate`) or change one (`RedoHarmless`), beyond the transactions that the reorganisation moved? Can status and listener disagree (`ListenerMatchesStatus`), or the status jump without `--from` (`StatusStepsByOne`)? No. Does a reader see the abstract catalogue (`ImplementsCatalogue`)? Yes. | 2 195 000 |
| `indexer_from` | violation: `StartsAtFrom` | |
| `ordiknots` | With the decoder's calls interleaved with the node's moves: do the walk and the block it belongs to stay together (`SystemTypeOK`)? Yes. Is anything indexed that was not published to its end (`IndexedIsPublished`), is anything missing that was all there when the indexer came by (`PublishedIsIndexed`)? No. Is it still the Indexer (`ImplementsIndexer`, with its fairness), does it get to every block (`CatchesUp`)? Yes. | 157 000 |
| `ordiknots_late` | violation: `AllKnotworksFound` | |
| `decoder` | While transactions arrive, are mined, are reorganised, and calls fail: is anything but the file ever returned (`OkIsTheFile`), is a published file found (`PublishedDecodes`), does the walk end (`DecodeEnds`)? | 149 000 |
| `decoder_change` | violation: `PublishedDecodesWhateverIsSpent` | |
| `formats` | Every length from 0 to 1250, with 0 to 2 zeros at the end. OP_RETURN: round trip (`ChainedRoundTrip`), a lost chunk is refused (`LostChunkRefused`), the stated limit is exact (`AdvertisedLimit`), every script but the last has the size of 42 bytes and no later chunk too little data to be relayed (`RelayableChunks`). P2WSH: only the zeros are lost (`OnlyTrailingZerosLost`), the number of inputs is the one announced (`InputsAsAnnounced`). Both: exactly the right transaction is detected, as the right technique (`DetectedAsWritten`). | 3 750 |
| `p2wsh_trailing_zero` | violation: `P2wshRoundTrip` | |
| `funding` | Does `encode` know what output 1 holds (`BookkeepingTracks`), is the fee near the rate (`FeeNearRate`)? Yes, within what two estimates of a weight may differ. Is an affordable chain made, without dust (`AffordableEncodes`)? Does the dust of a P2WSH file come back (`DustComesBack`), is what was funded spendable (`FundedIsSpendable`)? Yes. Is any amount ever negative (`EncodeTypeOK`)? No. | 152 000 |
| `publisher` | Four runs at once: is what a run announces published (`AnnouncedIsPublished`), can a P2WSH file get stuck between its two transactions by what others do (`FundedIsSpent`), is a chain refused for its length (`ChainWithinLimits`), or in its middle other than by a stolen continuation or dust (`TornChainExplained`)? | 508 000 |
| `server` | Is a page the index of one moment, sorted (`PageIsOneMoment`), with everything the index vouched for (`PageIsComplete`), does it show the files as they are (`CardsShowTheFiles`), does a request end (`Answered`)? Yes, but for a text cut inside a character. | 587 000 |
| `server_preview` | violation: `PageShown` | |

### Where the code and its documentation disagree

Each of these is a run that TLC ends with a counterexample.

- `indexer_from`: `--from=N` begins with block N + 1 (`indexer/mod.rs:190`), where
  `main.rs:90` calls it the "Starting block height to index from" and the
  repository's README says of `--from=924000` "Index starting from block 924,000".
  The knotworks of block N are missing, and the status claims the block.
  `NoSilentLoss` and the Catalogue follow the code: `PassedOver` in Indexer is
  `1 .. from`, and both excuse block N with those below it.
- `decoder_change`: the last transaction of a chain also has an output 1, which
  the wallet owns. Once it is spent, the decoder follows it into a foreign
  transaction and the knotwork cannot be decoded any more.
- `ordiknots_late`: the head of a knotwork is mined before its other chunks are
  published. Decoding fails with the head's block (`indexer/mod.rs:118`), that
  is taken for a false positive, and the block is never looked at again. One
  failing call while a knotwork is decoded has the same effect.
- `p2wsh_trailing_zero`: zeros at the end of a file are stripped as padding.
- `server_preview`: `&text[..100]` panics if a character lies across byte 100
  (`server.rs:116`), for every request from then on.

One is the subject of a property that holds: `chained_op_return/encode.rs:9` says of
`MAX_OP_RETURN_SIZE` = 40 that it is "the total scriptPubKey size, including OP_RETURN
opcode and push opcode". `RelayableChunks` says what it is: the size of the payload. The
script of every chunk but the last is exactly the opcodes longer, 42 bytes, so a node
that relays no more than the 40 of the comment relays none of these chains.

Read off the code while modelling, faithfully in the models, without a run of
their own:

- At the default fee rate of 5 sat/vB the 10000 sats of the continuation are
  used up after a dozen transactions, not after 25; `AffordableEncodes` is
  therefore about chains whose fees the amount covers.
- A block replaced at or below `last_height` is not indexed again
  (`indexer/mod.rs:152` compares heights only; this is why `NoSilentLoss`
  excepts the transactions in `reorged`, and only these).
- A reorganisation between the decoder's reading of the mempool and of the
  blocks can hide the continuation (this is why `whole` is reset there, in
  `ChainDecoder!NodeMoves`).
- The background indexer of a server is gone after one error during the first
  synchronisation (`main.rs:199`; `CatchesUp` excepts the state "dead").
- The continuation output of a chain that is being broadcast is an ordinary coin
  once its transaction is mined: another run of `encode` may spend it, and the
  rest of the chain is refused. It has to be the wallet's largest coin, or be
  needed by a P2WSH file (`TornChainExplained`, first case).
- What the fees leave for the last output 1 is not compared with the dust limit
  (`chained_op_return/encode.rs:280`; `TornChainExplained`, second case): the
  chain is refused at its last transaction, when all others are out.
- `select_utxos_by_amount` is given an estimate without the spending fee, so
  that a wallet with enough coins can be refused.
- The second transaction of a chain pays the fee of the first once more
  (`chained_op_return/encode.rs:92`; `FeeNearRate` is a lower bound for this
  reason).
- `extract_op_return_data` passes only one length byte of OP_PUSHDATA2 and 4.
- `tests/integration_test.rs:63` calls `encode` without its `fee_rate`, so that
  the test does not compile.

### Bounds

- *Indexer*: chains of 3 blocks, so that a restart can fall before, inside and
  after what was indexed; a knotwork and a false positive, which may share a
  block; one failing call, one crash and one reorganisation, which may hit the
  same block; `--from` absent or 1, which passes over block 1 on an empty
  database and goes back to block 2 on a full one. `indexer_from` has 2 blocks and
  no trouble at all.
- *Ordiknots*: a knotwork of two chunks and one of a single chunk, funded from
  what the first leaves; 3 blocks, a scan of one block beyond the start, so that
  a chunk can be mined out of its reach. `MaxTroubles` = 1: a behaviour has one
  failing call, crash or reorganisation, anywhere. Several are in `indexer` and
  `decoder`, each of which allows one of every kind. No OCEAN marker. With
  4 blocks a reorganisation can also close a gap that was too wide when the
  decoder came to it (section 4); the theorems cover every height.
  `ordiknots_late` needs no trouble at all.
- *Decoder*: a knotwork of three chunks (a head, a middle, a padded end), and
  one of a single chunk funded from what the first leaves; 3 blocks with
  `MAX_BLOCKS_TO_SCAN` = 1 (100 in the code), so that a continuation may be
  mined beyond the scan; one failing call; one reorganisation. Chunks are 8
  bytes with a 2-byte minimum for the last (40 and 30 in the code), so that
  5 bytes make three chunks.
- *Formats*: the real sizes (`MaxFile` = 1250, `MaxNulls` = 2). 1250 bytes is above the limit of 25 chunks (873)
  and above two full inputs (1213). The bytes of a file are distinct numbers,
  so that any byte lost, moved or doubled shows.
- *Funding*: real constants; weights from the sizes of the scripts, one weight
  unit apart for a shorter signature; all numbers of chunks, up to eight P2WSH inputs,
  six fee rates. They end with 600 sat/vB, where two estimates differ by
  more than the dust of one output. The maximal weight is 7000 (400000 in the
  code), so that eight inputs are too heavy and seven are not.
- *Publisher*: chains of two (whose end is just not dust), of three (whose end is)
  and of one transaction, and a P2WSH file; a rich and a poor coin, so that two runs may
  choose the same one, one may find too little, and a mined continuation may be
  the largest coin left; a chain limit of 3 on both sides (25 in the code), so
  that the longest chain fills it; one failing call and one kill, in any run.
  Amounts are scaled to a fee of 1: a continuation of 4, of which a chain of two
  leaves 2 and one of three 1, and a dust limit of 2.
- *Server*: three knotworks, the third spending the second, in 2 blocks; one
  request at a time, asked again and again. One transaction given up or one
  height passed over (`MaxExcuses`). No reorganisation: what a reader may rely
  on excludes the transactions one moves in any case. The preview is 12 bytes
  long (100 in the code). Two assignments of files: markup, a near-image and a
  near-text; an image, a text that the preview cuts inside a character, and one
  that it cuts after a character of two bytes.

### Fairness

`CatchesUp` and `ImplementsIndexer` assume weak fairness of the program's own
steps and of its start: the indexer is a loop in one thread, its calls return
(with an answer or an error), and nothing blocks it. Nothing is assumed of the
node: no block has to come, no call has to succeed; that calls fail only
finitely often is the bound `MaxFaults`. `DecodeEnds` assumes weak fairness of
the decoder's steps alone, for the same reason, and `Answered` of the handler's:
it waits for nobody, and the writer does not block a reader in redb. No fairness
is assumed of the indexer beside the server, and none in `publisher`, which
checks safety only.

`CHECK_DEADLOCK FALSE` appears where the program really stops: an indexer whose
task ended, an encoder that returned, the longest file, runs of `encode` that
are over.

## 4. What is proved

A run checks one small instance; a theorem holds for every value of the
constants: any set of transactions and files, any size of a chunk that the codec
allows, any height, scan, wallet, fee rate, number of runs and of requests, and any bound
on faults, crashes and reorganisations. All 32 invariants of the passing runs are
proved in this way, and three of their action properties (`RedoHarmless`,
`StatusStepsByOne`, `ImplementsCatalogue`).

| Module | Theorems |
|---|---|
| `IndexerProofs` | `TypeCorrect`, `ListenerAndStatusAgree`, `StatusNeverJumps`, `NothingLostSilently`, `EntriesAccurate`, `RedoIsHarmless`: the invariants and action properties of the run `indexer`; `IndexerImplementsCatalogue`: `Spec => ImplementsCatalogue` |
| `FormatsProofs` | `SpecChainedRoundTrip`, `SpecLostChunkRefused`, `SpecAdvertisedLimit`, `SpecRelayableChunks`, `SpecOnlyTrailingZerosLost`, `SpecInputsAsAnnounced`, `SpecDetectedAsWritten`: the run `formats`; `EveryChainedFile`, `EveryLossRefused`, `EveryP2wshFile`: the same of every sequence of bytes, and not only of the files that `Formats` grows |
| `OrdiknotsProofs` | `SpecTypeOK`, `SpecOkIsTheFile`, `SpecPublishedDecodes`: the invariants of the run `decoder`; `SystemImplementsIndexer`: `SystemSpec => Ix!Spec`; `SystemIsACatalogue`, `SystemIndexIsTrue`: what that gives of the indexer's theorems; `SystemTypes`, `OnlyPublishedIsIndexed`, `AllPublishedIsIndexed`: the invariants of the run `ordiknots`; `DecodedIsStored` |
| `FundingProofs` | `SpecTypeOK`, `SpecBookkeepingTracks`, `SpecFeeNearRate`, `SpecAffordableEncodes`, `SpecDustComesBack`, `SpecFundedIsSpendable`: the run `funding` |
| `ServerProofs` | `SpecTypeOK`, `SpecPageIsOneMoment`, `SpecPageIsComplete`, `SpecCardsShowTheFiles`: the invariants of the run `server` |
| `PublisherProofs` | `SpecTypeOK`, `SpecAnnouncedIsPublished`, `SpecTornChainExplained`, `SpecFundedIsSpent`, `SpecChainWithinLimits`: the run `publisher` |
| `NodeProofs`, `ProofLemmas` | lemmas only: the node's ledger; induction, minima and maxima, folds, concatenated sequences |

### Assumptions

The proofs rest on the named assumptions of the modules, and on nothing else.
TLC evaluates each of them in a passing run. Those that say more than types:

- `CodecAssumption`: an OP_RETURN payload has at most 255 bytes (40 in the code).
  With 256 the statement would be false: the decoder does not pass all length
  bytes of a longer push.
- `FormatsAssumption`: a chain has at most 255 transactions (25 in the code), since
  the number of its chunks is one byte; beyond that the error message of
  `chunk_data` would state a limit that is not reached.
- `P2wshAssumption`: a fake key has 3 to 74 bytes of the file, so that each key is
  pushed by its length alone and the prefix is in the first; at most 20 keys; the
  real key is of the length of the fake ones, and nothing is asked of its bytes.
- `ServerAssumption`: the table has each key once; files are sequences of bytes.
  `RenderingAssumption`: a type.
- `DecoderAssumption`: the transactions of a knotwork are what `encode` makes of
  a file that it takes (`EncodedAs`), and no transaction carries two chunks
  (`OneChunkEach`): each spends outputs of its own.
- `FundingAssumption`, `P2wshFundingAssumption`: signing may give a transaction
  finitely many weights, so that there is a dearest one; the wallet's coins come
  sorted.
- `PublisherAssumption`: the node relays chains as long as the program's limit,
  and of two transactions at least; its dust limit is not above the program's
  `DUST_THRESHOLD`.
- `NodeAssumption`, `IndexerAssumption`, `SystemAssumption`: types, and that
  "no entry" and "no --from" are values of their own. `Assumed` in
  `OrdiknotsProofs` derives the indexer's from those of the system.

### The indexer

None of the properties is inductive: `NoSilentLoss` says nothing about a block
in the middle of its processing, and `StatusStepsByOne` depends on where the
loop stands. The inductive invariant `Inv` has three layers.

1. `TypeOK`. One step needs more than types: `FetchBlock` reads `chain[cur]`,
   which must exist.
2. `ControlInv` gives that and says where the loops stand: which height is being
   processed in relation to `lastBlock`, `target` and `lastHeight` in each mode
   and at each `pc`. It survives reorganisations because they never shorten the
   chain. The first three theorems follow from it.
3. `ContentInv` says what the database has of the chain: each transaction is in
   one block at most, and not in the mempool as well (`OnceOnly`); in the block
   at hand, what is detected there is still to do, indexed or warned about, and
   what is still to do is there (`InHand`); and the two properties themselves.
   A step of the node keeps each block, or replaces it and puts the transactions
   of both blocks into `reorged` (`Kept`); what the invariant says of a
   transaction outside `reorged` survives either way.

`RedoIsHarmless` follows from `EntryAccurate` and `OnceOnly`: a second `Store`
of a transaction finds it in the only block it can be in, and writes what is
there.

`IndexerImplementsCatalogue` maps every step of the indexer to a step of the
catalogue or to a stutter: `Store` is `Find`, `DecodeErr` is `GiveUp`,
`Advance` and `Final` are `Claim`, a step of the node is `Drift`, and the rest
changes nothing a reader sees. `Claim` asks that every
block up to the new height is accounted for, which is `NoSilentLoss` after the
step: the invariant is what makes the refinement go through, and `InHand` gives
`Find` and `GiveUp` the block that the transaction is in.

### The formats

There is no behaviour here to speak of: `FilesInv` says that the file is a body
without zeros and zeros after it, and the rest is about functions of sequences.
The cutting of a file is the same idea in both formats, and `DivCeil`, the pieces of a
sequence and their concatenation are proved about once.

*Chained OP_RETURN.* The slices of `chunk_data` follow each other
without a gap or an overlap and end with the file (`Slices`); what `Chunk::encode`
and the push put into a script comes out again (`PayloadBack`, `FileChunks`);
`Assemble` gives back the file from all its chunks in order (`AssembleWhole`),
and refuses a part of them (`AssemblePart`) and a chain with two heads
(`AssembleTwoHeads`, by the pigeonhole principle: if one number is there twice,
another is missing).

*P2WSH.* `split_data_for_inputs` cuts the prefix and the file as one text into
pieces of equal size, although it treats the first input apart (`InputsArePieces`);
how many, is what `calculate_inputs_needed` says (`InputCount`). A piece cut
into keys gives a script from which the scan finds each key again: by induction
over the pushes, with the position of the scan after `k` of them. Only the last key of
the last input is padded, and what `decode` strips is that padding and the zeros
of the file before it, which is why nothing more can be said than
`OnlyTrailingZerosLost`. The bytes of the real key do not matter, since it comes
first and the scan skips it.

*Dispatch.* Detection asks for the prefix and a 0 after it in an OP_RETURN, where a
later chunk has its number, or for the prefix in the script of a witness of three
items or more, and a witness of the wallet has two. So it knows the one transaction
that `decode` is told about, and no other.

### The decoder

`OkIsTheFile` needs `WalkInv`: while the walk is under way, the chunks collected
are the first ones of the knotwork and the walk is at the last of their
transactions or at one that spends its output 1 (`OnTrack`), or it has gone over
into another knotwork and has two heads (`Strayed`), which `Assemble` refuses.
There is no third case, since a transaction that spends output 1 of the
knotwork's last one carries no chunk or a head. This needs nothing of the node:
it holds whatever the answers are.

`PublishedDecodes` needs the node. `Ledger` says of it that a transaction is in
one place (`OnceOnly`), an output has one spender (`SpentOnce`), and parents are
in lower blocks, earlier in the same one, or in the mempool (`ParentsBelow`).
`WholeInv` then says for every position of the walk where the next transaction
of the chain must be: in the mempool that was read or in a block, then in a
block, then at or above the height the scan has come to. Transactions only move
from the mempool into blocks while `whole` is true, which is why looking in the
mempool first misses none.

### The system

`SystemInv` joins the decoder's `DecoderInv`, the indexer's `Inv` and what ties
them (`InDecode`: a walk is under way only for a transaction that is still to do
in the block at hand). Every step of the decoder's but the last changes nothing
of Indexer; the last is `DecodeOk` or `DecodeErr`, whose guard `InDecode` gives.
So the system's steps are Indexer's or stutters, and the theorems about Indexer,
taken through an INSTANCE of `IndexerProofs`, hold of the system.

`AllPublishedIsIndexed` needs `Explained`: a knotwork with a warning was not all
there when its decode began, or met a failed call or a reorganisation meanwhile
(`unsure`), or has been touched by one since (`Disturbed`), or its last output is
spent, or a gap is too wide. The proof found the property as it had been stated
to be false: a reorganisation *after* the failed decode may bring two
transactions closer together, and then nothing explains the missing entry any
more. With the 3 blocks of the run `ordiknots` this cannot happen; with 4 TLC
finds it. `Disturbed` is the correction: with it the theorem holds, and TLC
agrees for 4 blocks (500 000 states).

### The amounts

*ChainFunding.* After the first transaction, output 1 holds what `encode` thinks
it does and the fee besides (`Tracked`); each later transaction starts from
`continuation_amount` and not from the output, so that the error of one
transaction is forgotten with the next. `Afforded`: every transaction so far has
cost the dearest fee at most, so that `continuation_amount + made * Dearest` does
not fall below `CONTINUATION_AMOUNT`.

*P2wshFunding.* The invariant ties the outputs to the fees by which they were
computed: `first` is the dust and one estimate of the spending fee. The proof of
`FundedIsSpendable` asked for the condition on the spread that the property
now has: at a fee rate at which two estimates differ by more than all the dust,
the spending transaction can be refused.

*EncodeFunding.* A behaviour is one technique's from its first state on (`EncodeIInv`),
so that what holds of the steps of each holds of both.

*Publisher.* The inductive invariant has the types; that every known transaction
is one that a run has built and sent (`KnownIsBuilt`, `Progress`); what the
transactions of each technique look like (`Shaped`); that chains begin at coins
that were confirmed when they were chosen (`SpendsConfirmed`). From these follow
how many unconfirmed ancestors and descendants a transaction can have
(`AncestorsWithin` and the lemmas after it), who can spend an output, and so why
a run may be refused (`Story`: a refusal in the middle is explained when it
happens and stays explained).

### The server

`ServerInv` has two sides. `IndexInv` is the Catalogue's: each block up to the last
one, those passed over excepted, is covered - what is detected there is indexed,
was given up or was moved by a reorganisation. Each step of the Catalogue keeps it
and takes no entry away (`EntriesStay`), so what the index vouches for is indexed
(`VouchedIndexed`) and stays so. `RequestOK` is one request's: what its reader sees
is one of the tables since the page was asked for, with all that was promised
then; its page has exactly the entries of that table before its position
(`PageOf`), each from its own key; and each card shows its file (`ShownIn`). A step
of the Catalogue changes of this only the set of tables, a step of one request
nothing of the others.

At the end nothing is left to read, so the page is the whole table (`PageWhole`);
that `NewestFirst` keeps it so and sorts it, is `Sorted`: the place of a card is the
number of those before it, which is a permutation since the order is strict and total.

`CardsShowTheFiles` is about `html_escape`. The five replacements run over the whole
text one after the other; `EscapeAppend` says that they amount to replacing each
character once, whatever is before it - which needs the ampersands to come first,
as the mutant shows - and `EscapedShows`, by induction over the text, that a browser
makes of the result the text there was, with no character of it taken for markup.

### Not proved

- Liveness (`CatchesUp`, `DecodeEnds`, `Answered`) and the fairness part of
  `ImplementsIndexer`: beyond this prover. The theorem `SystemImplementsIndexer`
  is the safety part. They are the only properties of passing runs that are
  model-checked and not proved.
- Induction over data, where it is needed, is not by the library's induction theorems,
  which take an operator: with the goal written as a set, `NatSetInduction`,
  `FiniteSetInduction` and `SeqSetInduction` in `ProofLemmas` prove it in first-order logic, from the
  least element of a set of numbers.
- The five properties of the violation runs, which are false.

## 5. Not modelled

- Keys, signatures and script validity: a transaction's validity is that its
  inputs exist, are unspent and can be signed for; a signature is a weight.
- In `Publisher`: reorganisations, eviction and replacement in the mempool (RBF),
  and fees that the node finds too low. In the other modules: eviction,
  replacement, and reorganisations that shorten the chain or drop a transaction.
- The dry run of `encode` (it prints), `broadcast_multiple` (nobody calls it),
  the parsing of arguments, the choice of the network and of the RPC
  credentials, reading and writing the files of the commands.
- Formatting, logs, progress bars, `get_stats`; the layout of the page, the
  links and the formatted sizes on it; the base64 of an image. The technique and
  file size of an index entry, functions of the transaction.
- The few second bytes that UTF-8 forbids after 224, 237, 240 and 244.

## 6. What is left

All components of the inventory are modelled, the command line in the parts that
change state, and every safety property that a passing run checks is proved. What
could be added:

1. *A server that decodes against the moving node*: `Server` takes what decoding returns
   as given, or as a failure. Composing it with `ChainDecoder` would show the page of
   a knotwork whose chain is reorganised while it is read.
2. *Eviction and replacement in the mempool*, which `BitcoinNode` and `Publisher`
   leave out.
