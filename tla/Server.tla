-------------------------------- MODULE Server --------------------------------
(***************************************************************************)
(* The web server: a request for the page reads the index while the        *)
(* indexer writes to it, decodes every knotwork again and shows it.  What  *)
(* the indexer and the node do meanwhile is the Catalogue.                 *)
(*                                                                         *)
(* decode is a call that returns the file of the transaction or fails, at  *)
(* any time: ChainDecoder says that it returns nothing else.               *)
(***************************************************************************)
EXTENDS Catalogue, Rendering

CONSTANTS
  Requests,
  Keys,          (* the transactions in the order of the table's keys      *)
  Files,         (* the assignments of files to transactions to look at    *)
  MaxExcuses     (* bound on the transactions given up and heights passed  *)
                 (* over                                                   *)

ASSUME ServerAssumption ==
  /\ Keys \in Seq(Tx) /\ ToSet(Keys) = Detected
  /\ \A i, j \in DOMAIN Keys : Keys[i] = Keys[j] => i = j
  /\ \A f \in Files : f \in [Detected -> Seq(0 .. 255)]
  /\ MaxExcuses \in Nat

VARIABLES
  file,       (* file[t]: what decode returns for t                        *)
  state,      (* of a request; "lost": its handler panicked                *)
  snapshot,   (* the table its read transaction sees                       *)
  position,   (* the entries before this one have been read                *)
  page,       (* the cards made so far, or those of the answer             *)
  asked,      (* history: the tables since the request was made            *)
  promised    (* history: what the index vouched for when it was made      *)

requestVars == <<state, snapshot, position, page>>
serverVars == <<file, requestVars, asked, promised>>
vars == <<catalogueVars, serverVars>>

States == {"idle", "asked", "reading", "answered", "error", "lost"}
EmptyTable == [t \in Tx |-> NoEntry]

(* What a reader may rely on: the transactions of the blocks up to the     *)
(* last one, but for those given up, passed over or moved.                 *)
Vouched ==
  ((UNION {chain[h].txs : h \in (1 .. lastBlock) \ passedOver}) \cap Detected)
    \ (failed \cup moved)

-----------------------------------------------------------------------------

ServerInit ==
  /\ file \in Files
  /\ state = [r \in Requests |-> "idle"]
  /\ snapshot = [r \in Requests |-> EmptyTable]
  /\ position = [r \in Requests |-> 1]
  /\ page = [r \in Requests |-> <<>>]
  /\ asked = [r \in Requests |-> {}]
  /\ promised = [r \in Requests |-> {}]

Becomes(r, s) == state' = [state EXCEPT ![r] = s]

(* A request reaches the server. *)
Ask(r) ==
  /\ state[r] = "idle"
  /\ Becomes(r, "asked")
  /\ asked' = [asked EXCEPT ![r] = {table}]
  /\ promised' = [promised EXCEPT ![r] = Vouched]
  /\ UNCHANGED <<catalogueVars, file, snapshot, position, page>>

(* begin_read and open_table: the reader keeps the table of this moment. *)
BeginRead(r) ==
  /\ state[r] = "asked"
  /\ Becomes(r, "reading")
  /\ snapshot' = [snapshot EXCEPT ![r] = table]
  /\ UNCHANGED <<catalogueVars, file, position, page, asked, promised>>

(* The database cannot be read: list_knotworks answers with the error. *)
ReadError(r) ==
  /\ state[r] \in {"asked", "reading"}
  /\ Becomes(r, "error")
  /\ UNCHANGED <<catalogueVars, file, snapshot, position, page, asked, promised>>

(* Mutant of Seen: every entry is read from the table of its own moment. *)
SeenNow(r) == table

Seen(r) == snapshot[r]

(* Where the entries are that are still to be read. *)
ToRead(r) == {i \in position[r] .. Len(Keys) : Seen(r)[Keys[i]] # NoEntry}

(* Mutant of NextPosition: an entry is passed over. *)
NextPositionSkips(i) == i + 2

NextPosition(i) == i + 1

Card(r, t, content) ==
  [tx |-> t, height |-> Seen(r)[t].height, shiny |-> Seen(r)[t].shiny, content |-> content]

(* The next entry: decode and render_content, or the note that it failed. *)
ReadEntry(r) ==
  /\ state[r] = "reading" /\ ToRead(r) # {}
  /\ LET i == CHOOSE k \in ToRead(r) : \A l \in ToRead(r) : k <= l
         t == Keys[i]
     IN \E decoded \in BOOLEAN :
          IF decoded /\ RenderPanics(file[t])
          THEN Becomes(r, "lost") /\ UNCHANGED <<position, page>>
          ELSE /\ page' = [page EXCEPT ![r] = Append(@,
                    Card(r, t, IF decoded THEN RenderContent(file[t]) ELSE Undecoded))]
               /\ position' = [position EXCEPT ![r] = NextPosition(i)]
               /\ UNCHANGED state
  /\ UNCHANGED <<catalogueVars, file, snapshot, asked, promised>>

(* sort_by, which keeps the order of those of one height: the card that    *)
(* has k - 1 others before it becomes the k-th.                            *)
NewestFirst(cards) ==
  LET Before(i, j) == \/ cards[i].height > cards[j].height
                      \/ cards[i].height = cards[j].height /\ i < j
      Place(j) == 1 + Cardinality({i \in DOMAIN cards : Before(i, j)})
  IN [k \in DOMAIN cards |-> cards[CHOOSE j \in DOMAIN cards : Place(j) = k]]

(* The cards are sorted, and render_html puts them on the page. *)
Answer(r) ==
  /\ state[r] = "reading" /\ ToRead(r) = {}
  /\ Becomes(r, "answered")
  /\ page' = [page EXCEPT ![r] = NewestFirst(page[r])]
  /\ UNCHANGED <<catalogueVars, file, snapshot, position, asked, promised>>

(* The connection is closed. *)
Close(r) ==
  /\ state[r] \in {"answered", "error", "lost"}
  /\ Becomes(r, "idle")
  /\ snapshot' = [snapshot EXCEPT ![r] = EmptyTable]
  /\ position' = [position EXCEPT ![r] = 1]
  /\ page' = [page EXCEPT ![r] = <<>>]
  /\ asked' = [asked EXCEPT ![r] = {}]
  /\ promised' = [promised EXCEPT ![r] = {}]
  /\ UNCHANGED <<catalogueVars, file>>

(* The indexer and the node go on. *)
Meanwhile ==
  /\ CatalogueNext
  /\ Cardinality(failed') + Cardinality(passedOver') <= MaxExcuses
  /\ asked' = [r \in Requests |->
                 IF state[r] \in {"asked", "reading"} THEN asked[r] \cup {table'} ELSE asked[r]]
  /\ UNCHANGED <<file, requestVars, promised>>

HandlerStep(r) == BeginRead(r) \/ ReadEntry(r) \/ Answer(r)

Init == CatalogueInit /\ ServerInit

Next ==
  \/ \E r \in Requests : Ask(r) \/ HandlerStep(r) \/ ReadError(r) \/ Close(r)
  \/ Meanwhile

(* A handler runs to its end: it never waits for anybody. *)
Spec == Init /\ [][Next]_vars /\ \A r \in Requests : WF_vars(HandlerStep(r))

-----------------------------------------------------------------------------

(* Types; a page has a card for each entry at most.                        *)
TypeOK ==
  /\ state \in [Requests -> States]
  /\ snapshot \in [Requests -> [Tx -> Entry \cup {NoEntry}]]
  /\ \A r \in Requests :
       /\ position[r] \in 1 .. Len(Keys) + 1
       /\ Len(page[r]) <= Len(Keys)
       /\ promised[r] \subseteq Detected

Rows(cards) == {[tx |-> c.tx, height |-> c.height, shiny |-> c.shiny] : c \in ToSet(cards)}
EntriesOf(T) ==
  {[tx |-> t, height |-> T[t].height, shiny |-> T[t].shiny] : t \in {u \in Tx : T[u] # NoEntry}}

(* A page is the index of one moment between the request and its answer,   *)
(* all of it and nothing else, the newest block first, although the        *)
(* indexer stores entries while the page is made.                          *)
PageIsOneMoment ==
  \A r \in Requests : state[r] = "answered" =>
    /\ \E T \in asked[r] : Rows(page[r]) = EntriesOf(T)
    /\ Len(page[r]) = Cardinality(Rows(page[r]))
    /\ \A i \in 1 .. Len(page[r]) - 1 : page[r][i].height >= page[r][i + 1].height

(* Nothing the index vouched for when a page was asked for is missing on   *)
(* it, be it that its knotwork cannot be decoded any more.                 *)
PageIsComplete ==
  \A r \in Requests : state[r] = "answered" =>
    promised[r] \subseteq {c.tx : c \in ToSet(page[r])}

(* Every card shows the file of its transaction. *)
CardsShowTheFiles ==
  \A r \in Requests : \A i \in DOMAIN page[r] : Shows(page[r][i].content, file[page[r][i].tx])

(* Some knotwork is a text with a character across byte 100. *)
CutText == \E t \in Detected : CutInside(file[t])

(* Who asks for the page gets an answer, whatever the indexer writes       *)
(* meanwhile and whatever the files contain - a text that is cut inside a  *)
(* character excepted.                                                     *)
Answered ==
  \A r \in Requests : state[r] = "asked" ~>
    state[r] \in {"answered", "error"} \/ (state[r] = "lost" /\ CutText)

-----------------------------------------------------------------------------
(* What the documentation says and the code does not do. *)

(* README: "You can also run the Ordiknots server to see all knotworks in  *)
(* a web interface!": who asks for the page gets it.                       *)
PageShown ==
  \A r \in Requests : state[r] = "asked" ~> state[r] \in {"answered", "error"}
=============================================================================
