----------------------------- MODULE RequestWindow -----------------------------
(***************************************************************************)
(* The request-owned sliding windows of dsv41_request_window.py, used for  *)
(* the encoder replay, together with the bounded replay of the decoder     *)
(* layers in deepseek_v4_backend.py and deepseek_v4_model.py.              *)
(*                                                                         *)
(* Every layer keeps a ring of KV rows per request slot.  A forward pass   *)
(* copies, layer by layer, the rows before its tokens into one workspace,  *)
(* appends the rows of its tokens, attends through an index table, and     *)
(* copies the new rows back into the ring.  After the last KV source layer *)
(* a prefill goes on with the last rows of each request only.              *)
(*                                                                         *)
(* A row is <<request, position, kept>>; kept is FALSE for a draft token   *)
(* that verification will reject.  One thread runs everything; which       *)
(* requests a pass batches, and how a prompt is cut, is left open.         *)
(***************************************************************************)
EXTENDS Integers, FiniteSets

CONSTANTS
    Slots,      (* request slots                                           *)
    Layers,     (* number of layers                                        *)
    LateStart,  (* first layer after the last KV source layer              *)
    Window,     (* SWA_WINDOW                                              *)
    PageSize,   (* page size of the window pool                            *)
    Drafts,     (* rows of one verification, the accepted token included   *)
    Chunk,      (* chunked_prefill_size: tokens of a prefill pass          *)
    MaxPrefix,  (* bound: tokens of a cached prefix                        *)
    MaxLen,     (* bound: tokens of a request                              *)
    MaxReqs     (* bound: requests                                         *)

ASSUME WindowAssumption ==
    /\ IsFiniteSet(Slots) /\ Slots \subseteq Nat
    /\ Layers \in Nat /\ LateStart \in 2 .. Layers
    /\ Window \in Nat \ {0} /\ PageSize \in Nat \ {0} /\ Drafts \in Nat \ {0}
    /\ Chunk \in Nat \ {0} /\ MaxReqs \in Nat
    /\ MaxPrefix \in Nat /\ MaxLen \in Nat /\ MaxPrefix < MaxLen

VARIABLES
    skipTail,             (* DSV41_SKIP_NONFINAL_DECODER                   *)
    (* the scheduler's view: of each slot the number of its request, what  *)
    (* the request waits for and its tokens; the last request's number     *)
    owner, phase, len, count,
    gap,                  (* ghost: the end of what late layers skipped     *)
    (* RequestWindow: state, tags, workspace, prepared, layout             *)
    ring, tags, workspace, prepared, layout,
    (* the pass: its kind, its tail, its outcome, where it is              *)
    mode, tail, outcome, finishing, layer, pc, raised

schedVars == <<skipTail, owner, phase, len, count, gap>>
poolVars == <<ring, tags, workspace, prepared>>
passVars == <<mode, tail, outcome, finishing, layer, pc>>
vars == <<schedVars, poolVars, layout, passVars, raised>>

LayerIds == 1 .. Layers
Blank == <<0, -1, FALSE>>
CeilTo(n, m) == ((n + m - 1) \div m) * m
Capacity_NoDrafts == CeilTo(Window, PageSize)
Capacity == CeilTo(Window + Drafts, PageSize)
Cells == 0 .. Capacity - 1
Higher(a, b) == IF a < b THEN b ELSE a
Groups == Cardinality(Slots) + 1
WorkspaceRows_NoNewRows == 0 .. Groups * Window - 1
WorkspaceRows ==
    0 .. Groups * Window + Higher(Chunk, Groups * (1 + Drafts)) - 1

Least(S) == CHOOSE x \in S : \A y \in S : x <= y
Greatest(S) == CHOOSE x \in S : \A y \in S : x >= y
Lower(a, b) == IF a < b THEN a ELSE b

-----------------------------------------------------------------------------
(* window_layout, for rows given by req, pos and floor (0: no floor).      *)

NoRows == [req |-> <<>>, pos |-> <<>>, floor |-> <<>>, groups |-> 0]

Rows(l) == DOMAIN l.pos
Starts(l) == {i \in Rows(l) : i = 0 \/ l.req[i] # l.req[i - 1]}
Group(l, i) == Cardinality({j \in Starts(l) : j <= i}) - 1
GroupFirst(l, i) == Greatest({j \in Starts(l) : j <= i})
GroupLast(l, i) == Least({j \in Rows(l) : j >= i /\ (j + 1 \in Starts(l) \/ j + 1 \notin Rows(l))})
FirstPos(l, i) == l.pos[i] - (i - GroupFirst(l, i))
HistoryRows(l) == l.groups * Window
WriteLoc(l, i) == HistoryRows(l) + i

(* Where query row i finds the token k before it, or -1.                   *)
Index(l, i, k) ==
    LET seen == l.pos[i] - k
        first == FirstPos(l, i)
    IN  IF seen < 0 \/ seen < l.floor[i] THEN -1
        ELSE IF seen < first
             THEN Group(l, i) * Window + (seen - (first - Window))
             ELSE HistoryRows(l) + GroupFirst(l, i) + seen - first

(* History row h: whose it is, the position it stands for, and its cell.   *)
HistoryHead(l, h) == Greatest({i \in Starts(l) : Group(l, i) = h \div Window})
HistoryReq(l, h) == l.req[HistoryHead(l, h)]
HistoryPos(l, h) == FirstPos(l, HistoryHead(l, h)) - Window + (h % Window)
HistoryValid(l, h) ==
    /\ HistoryPos(l, h) >= 0
    /\ HistoryPos(l, h) >= l.floor[HistoryHead(l, h)]

Committed(l, i) == GroupLast(l, i) - i < Capacity

(* The rows of a batch: of slot s, the n[s] tokens from first[s] on, slot  *)
(* by slot.                                                                *)
Size(in, n) == Cardinality(UNION {{s} \X (1 .. n[s]) : s \in in})
RowsOf(in, first, n, floor) ==
    LET start(s) == Size({t \in in : t < s}, n)
        rows == 0 .. Size(in, n) - 1
        of == [i \in rows |-> CHOOSE s \in in : start(s) <= i /\ i < start(s) + n[s]]
    IN  [req |-> of,
         pos |-> [i \in rows |-> first[of[i]] + i - start(of[i])],
         floor |-> [i \in rows |-> floor[of[i]]],
         groups |-> Cardinality(in)]

-----------------------------------------------------------------------------
Init ==
    /\ skipTail \in BOOLEAN
    /\ owner = [s \in Slots |-> 0] /\ phase = [s \in Slots |-> "free"]
    /\ len = [s \in Slots |-> 0] /\ count = 0
    /\ gap = [s \in Slots |-> 0]
    /\ ring = [l \in LayerIds |-> [s \in Slots |-> [c \in Cells |-> Blank]]]
    /\ tags = [l \in LayerIds |-> [s \in Slots |-> [c \in Cells |-> -1]]]
    /\ workspace = [w \in WorkspaceRows |-> Blank]
    /\ prepared = 0 /\ layout = NoRows
    /\ mode = "none" /\ tail = NoRows /\ outcome = [s \in Slots |-> 0]
    /\ finishing = {} /\ layer = 0 /\ pc = "idle" /\ raised = 0

(* A request gets slot s with a cached prefix of p tokens: the windows are *)
(* not cached, so the slot is reset and the prefix replayed.               *)
Admit(s) ==
    /\ pc = "idle" /\ phase[s] = "free" /\ count < MaxReqs
    /\ count' = count + 1 /\ owner' = [owner EXCEPT ![s] = count']
    /\ \E p \in 0 .. MaxPrefix :
          /\ len' = [len EXCEPT ![s] = p]
          /\ phase' = [phase EXCEPT ![s] = IF p > 0 THEN "replay" ELSE "prefill"]
    /\ tags' = [l \in LayerIds |-> [tags[l] EXCEPT ![s] = [c \in Cells |-> -1]]]
    /\ prepared' = 0
    /\ UNCHANGED <<skipTail, gap, ring, workspace, layout, passVars, raised>>

(* A request finishes, is aborted or is retracted.                         *)
Leave(s) ==
    /\ pc = "idle" /\ phase[s] # "free"
    /\ phase' = [phase EXCEPT ![s] = "free"]
    /\ owner' = [owner EXCEPT ![s] = 0] /\ len' = [len EXCEPT ![s] = 0]
    /\ gap' = [gap EXCEPT ![s] = 0]
    /\ UNCHANGED <<skipTail, count, poolVars, layout, passVars, raised>>

(* init_forward_metadata: the layout of the pass, and its tail if any;     *)
(* activate forgets what is prepared.  A captured graph runs no Python.    *)
(* done are the requests whose phase ends with the pass.                   *)
Start(kind, rows, late, accepted, done) ==
    /\ pc = "idle" /\ raised = 0
    /\ layout' = rows /\ tail' = late
    /\ mode' = kind /\ outcome' = accepted /\ finishing' = done
    /\ layer' = 1 /\ pc' = "buffer"
    /\ UNCHANGED <<skipTail, owner, phase, len, count, ring, tags, workspace, raised>>
Begin_KeepsPrepared(kind, rows, late, accepted, done) ==
    Start(kind, rows, late, accepted, done) /\ UNCHANGED prepared
Begin(kind, rows, late, accepted, done) ==
    /\ Start(kind, rows, late, accepted, done)
    /\ prepared' = IF kind = "graph" THEN prepared ELSE 0

Waiting(ph) == {s \in Slots : phase[s] = ph}
Decoding == {s \in Waiting("decode") : len[s] + Drafts <= MaxLen}

(* The last Window rows of each request, floored where they start.         *)
TailOf(in, n) ==
    LET m == [s \in in |-> Lower(n[s], Window)]
        first == [s \in in |-> len[s] + n[s] - m[s]]
    IN  RowsOf(in, first, m, first)

(* Rebuild the windows of the last tokens of the prefixes just hit.        *)
Replay ==
    \E in \in SUBSET Waiting("replay") \ {{}} :
        LET n == [s \in in |-> Lower(len[s], Window)]
            first == [s \in in |-> len[s] - n[s]]
            rows == RowsOf(in, first, n, first)
        IN  /\ Cardinality(Rows(rows)) <= Chunk
            /\ Begin("replay", rows, rows, [s \in Slots |-> 0], in)
            /\ gap' = [s \in Slots |-> IF s \in in THEN first[s] ELSE gap[s]]

(* One chunk of prompts.  The tail leaves out the requests it does not     *)
(* finish when skipTail is set, and with none left there is no tail.       *)
Extend ==
    \E in \in SUBSET Waiting("prefill") \ {{}} :
    \E n \in [in -> 1 .. Chunk], final \in SUBSET in :
        LET rows == RowsOf(in, [s \in in |-> len[s]], n, [s \in in |-> 0])
            kept == IF skipTail THEN final ELSE in
        IN  /\ \A s \in in : len[s] + n[s] <= MaxLen
            /\ Cardinality(Rows(rows)) <= Chunk
            /\ Begin("extend", rows,
                     IF kept = {} THEN NoRows ELSE TailOf(kept, n),
                     [s \in Slots |-> IF s \in in THEN n[s] ELSE 0], final)
            /\ gap' = [s \in Slots |->
                  IF s \notin in THEN gap[s]
                  ELSE IF s \notin kept THEN len[s] + n[s]
                  ELSE IF n[s] > Window THEN len[s] + n[s] - Window ELSE gap[s]]

(* Verify the drafts of all decoding requests; of the rows of s the first  *)
(* outcome[s] will be kept.                                                *)
Verify ==
    /\ Decoding # {}
    /\ \E a \in [Decoding -> 1 .. Drafts], graph \in BOOLEAN :
          LET rows == RowsOf(Decoding, len, [s \in Decoding |-> Drafts],
                             [s \in Decoding |-> 0])
          IN  Begin(IF graph THEN "graph" ELSE "verify", rows, NoRows,
                    [s \in Slots |-> IF s \in Decoding THEN a[s] ELSE 0], {})
    /\ UNCHANGED gap

(* The KV row of row i of the current layout.                              *)
Token(i) ==
    LET s == layout.req[i]
    IN  <<owner[s], layout.pos[i],
          mode = "replay" \/ layout.pos[i] < len[s] + outcome[s]>>

Cell(p) == p % Capacity
Tagged(h) ==
    tags[layer][HistoryReq(layout, h)][Cell(HistoryPos(layout, h))]
        = HistoryPos(layout, h)

(* buffer(layer): bring the history into the workspace, unless that was    *)
(* done for this layer, and store the rows of the new tokens behind it.    *)
Buffer ==
    LET history == 0 .. HistoryRows(layout) - 1
        load == mode = "graph" \/ prepared # layer
        missing == \E h \in history : HistoryValid(layout, h) /\ ~Tagged(h)
    IN
    /\ pc = "buffer" /\ raised = 0
    /\ \/ /\ load /\ mode # "graph" /\ missing
          /\ raised' = layer
          /\ UNCHANGED <<workspace, prepared, pc>>
       \/ /\ ~(load /\ mode # "graph" /\ missing)
          /\ workspace' = [w \in WorkspaceRows |->
                CASE w \in history /\ load ->
                       IF HistoryValid(layout, w)
                       THEN ring[layer][HistoryReq(layout, w)][Cell(HistoryPos(layout, w))]
                       ELSE Blank
                  [] w - HistoryRows(layout) \in Rows(layout) -> Token(w - HistoryRows(layout))
                  [] OTHER -> workspace[w]]
          /\ prepared' = IF mode = "graph" THEN prepared ELSE layer
          /\ pc' = "commit"
          /\ UNCHANGED raised
    /\ UNCHANGED <<schedVars, ring, tags, layout, mode, tail, outcome, finishing, layer>>

Targets(s, c) ==
    {i \in Rows(layout) :
        Committed(layout, i) /\ layout.req[i] = s /\ Cell(layout.pos[i]) = c}

(* commit(layer), and on to the next layer: the late layers of a prefill   *)
(* run over the tail, or not at all.  Of two rows for one cell either may  *)
(* stay.  Between passes nothing reads the layout and the workspace, and   *)
(* the model forgets them.                                                 *)
Commit ==
    /\ pc = "commit"
    /\ \E pick \in [Slots \X Cells -> {TRUE, FALSE}] :
          LET winner(s, c) == IF pick[s, c] THEN Least(Targets(s, c))
                              ELSE Greatest(Targets(s, c))
          IN  /\ \A s \in Slots, c \in Cells : Cardinality(Targets(s, c)) < 2 => pick[s, c]
              /\ ring' = [ring EXCEPT ![layer] = [s \in Slots |-> [c \in Cells |->
                    IF Targets(s, c) = {} THEN @[s][c]
                    ELSE workspace[WriteLoc(layout, winner(s, c))]]]]
              /\ tags' = [tags EXCEPT ![layer] = [s \in Slots |-> [c \in Cells |->
                    IF Targets(s, c) = {} THEN @[s][c] ELSE layout.pos[winner(s, c)]]]]
    /\ \/ /\ layer + 1 = LateStart /\ mode \in {"replay", "extend"} /\ tail # NoRows
          /\ layout' = tail /\ prepared' = 0
          /\ layer' = layer + 1 /\ pc' = "buffer"
          /\ UNCHANGED <<phase, len, mode, tail, outcome, finishing>>
       \/ /\ layer < Layers
          /\ ~(layer + 1 = LateStart /\ mode \in {"replay", "extend"})
          /\ layer' = layer + 1 /\ pc' = "buffer"
          /\ UNCHANGED <<phase, len, mode, tail, outcome, finishing, layout, prepared>>
       \/ /\ \/ layer = Layers
             \/ layer + 1 = LateStart /\ mode = "extend" /\ tail = NoRows
          /\ len' = [s \in Slots |-> len[s] + outcome[s]]
          /\ phase' = [s \in Slots |->
                IF s \notin finishing THEN phase[s]
                ELSE IF mode = "replay" THEN "prefill" ELSE "decode"]
          /\ mode' = "none" /\ tail' = NoRows /\ outcome' = [s \in Slots |-> 0]
          /\ finishing' = {} /\ layer' = 0 /\ pc' = "idle"
          /\ layout' = NoRows /\ UNCHANGED prepared
    /\ workspace' = IF pc' = "idle" THEN [w \in WorkspaceRows |-> Blank] ELSE workspace
    /\ UNCHANGED <<skipTail, owner, count, gap, raised>>

Next ==
    \/ \E s \in Slots : Admit(s) \/ Leave(s)
    \/ Replay \/ Extend \/ Verify \/ Buffer \/ Commit

Spec == Init /\ [][Next]_vars

-----------------------------------------------------------------------------
(* The types; and the workspace, sized once at construction, holds the     *)
(* histories and the tokens of every pass (activate raises otherwise).     *)
Row == (0 .. MaxReqs) \X (-1 .. MaxLen) \X BOOLEAN
TypeOK ==
    /\ owner \in [Slots -> 0 .. MaxReqs] /\ len \in [Slots -> 0 .. MaxLen]
    /\ gap \in [Slots -> 0 .. MaxLen]
    /\ ring \in [LayerIds -> [Slots -> [Cells -> Row]]]
    /\ tags \in [LayerIds -> [Slots -> [Cells -> -1 .. MaxLen]]]
    /\ workspace \in [WorkspaceRows -> Row]
    /\ prepared \in 0 .. Layers /\ layer \in 0 .. Layers /\ raised \in 0 .. Layers
    /\ HistoryRows(layout) + Cardinality(Rows(layout)) <= Cardinality(WorkspaceRows)

(* What row i attends to, k tokens back, is the row of that token of its   *)
(* own request, and not of a draft that was rejected.                      *)
AttendsTo(i, k) ==
    LET w == Index(layout, i, k)
        r == workspace[w]
    IN  w # -1 =>
        /\ r[1] = owner[layout.req[i]] /\ r[2] = layout.pos[i] - k
        /\ w < HistoryRows(layout) => r[3]

AttentionIsOwn ==
    pc = "commit" =>
        \A i \in Rows(layout), k \in 0 .. Window - 1 : AttendsTo(i, k)

(* Position p of slot s lies where the current layer was left out.         *)
Skipped(s, p) == skipTail /\ layer >= LateStart /\ p < gap[s]

(* Between buffer and commit of a layer, every query finds in its window   *)
(* the tokens of its own request at their positions: no row of the slot's  *)
(* previous owner, of another slot, of a rejected draft or of a cell that  *)
(* a later token took over.  Excepted are, at the late layers, positions   *)
(* skipped with earlier chunks (window_layout, buffer, commit).            *)
HistoryIsOwn ==
    pc = "commit" =>
        \A i \in Rows(layout), k \in 0 .. Window - 1 :
            Skipped(layout.req[i], layout.pos[i] - k) \/ AttendsTo(i, k)

(* Chunking, replay, slot reuse and verification never leave a window that *)
(* buffer refuses as missing, except for positions that were skipped.      *)
NoFalseAlarm ==
    raised # 0 => \A h \in 0 .. HistoryRows(layout) - 1 :
        HistoryValid(layout, h) /\ ~Tagged(h)
            => Skipped(HistoryReq(layout, h), HistoryPos(layout, h))

(* What the comment of _build_late_layer_tail_metadata says of skipping    *)
(* the late layers for chunks that are not final: no late layer reads what *)
(* was skipped.  It does, when the last chunk is shorter than the window:  *)
(* nothing floors a decode step at the tail start of the prefill.          *)
LateReadersAreFloored == layer >= LateStart => AttentionIsOwn
===============================================================================
