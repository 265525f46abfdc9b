-------------------------------- MODULE Hpack --------------------------------
(***************************************************************************)
(* Header compression, src/http2/hpack: the encoder of one side, the       *)
(* decoder of the other and the header blocks on their way between them.   *)
(* A field is a name, a value and what it costs in a table; the octets of  *)
(* an integer or a string are left out, the representations, the indices   *)
(* and the tables are kept.                                                *)
(***************************************************************************)
EXTENDS Integers, Sequences, FiniteSets, SequencesExt

CONSTANTS
    Static,      \* STATIC: the fields every table starts with
    FieldSet,    \* the fields that are sent
    Sizes,       \* the table sizes the peer's SETTINGS may allow
    Limit,       \* the largest of them, which the decoder holds updates to
    MaxFields,   \* fields in one list
    MaxInFlight  \* blocks on their way

ASSUME HpackAssumption ==
    /\ \A f \in FieldSet :
         /\ f = [name |-> f.name, value |-> f.value, cost |-> f.cost]
         /\ f.cost \in Nat \ {0}
    /\ Static \in Seq(Range(Static))
    /\ Limit \in Nat /\ Sizes \subseteq 0..Limit
    /\ MaxFields \in Nat /\ MaxInFlight \in Nat \ {0}

VARIABLES
    encoder,    \* the encoder's table, entries newest first
    pending,    \* the size change the next block announces, or NoSize
    decoder,    \* the decoder's table
    blocks,     \* the blocks on their way, each with the list it carries
    last        \* the last block decoded: the list sent and the list read

vars == <<encoder, pending, decoder, blocks, last>>

NoSize == -1
Same(f, g) == f.name = g.name /\ f.value = g.value
Cost(entries) ==
    LET sum[n \in 0..Len(entries)] ==
            IF n = 0 THEN 0 ELSE sum[n - 1] + entries[n].cost
    IN  sum[Len(entries)]

(* evict: the oldest leave until the rest fits the room.                   *)
Evict_OneOver(entries, room) ==
    SubSeq(entries, 1, Max({n \in 0..Len(entries) :
                              n = 0 \/ Cost(SubSeq(entries, 1, n)) <= room + 1}))
Evict(entries, room) ==
    SubSeq(entries, 1, Max({n \in 0..Len(entries) :
                              Cost(SubSeq(entries, 1, n)) <= room}))
Floor(n) == IF n < 0 THEN 0 ELSE n

(* insert: a field larger than the whole table empties it.                 *)
Insert(table, field) ==
    LET kept == Evict(table.entries, Floor(table.max - field.cost))
    IN  [table EXCEPT !.entries = IF field.cost <= table.max
                                  THEN Cons(field, kept) ELSE kept]
Resize(table, max) == [entries |-> Evict(table.entries, max), max |-> max]

(* get: the field at an index, the static ones first.                      *)
Holds(table, index) == index \in 1..(Len(Static) + Len(table.entries))
Get(table, index) == (Static \o table.entries)[index]

(* find: the first index of the whole field, else the first of its name,   *)
(* else 0. The static table comes first in either.                         *)
FindField(table, f) ==
    SelectInSeq(Static \o table.entries, LAMBDA g : Same(f, g))
FindName(table, f) ==
    SelectInSeq(Static \o table.entries, LAMBDA g : g.name = f.name)

-----------------------------------------------------------------------------
(* The representations: a size update, a field indexed whole, and a        *)
(* literal added to the table, its name indexed or (index 0) written.      *)
Update(size) == [op |-> "update", size |-> size]
Indexed(index) == [op |-> "indexed", index |-> index]
Literal(index, field) == [op |-> "literal", index |-> index, field |-> field]

(* One field encoded, onto the table and the block so far.                 *)
EncodeField(so_far, field) ==
    LET whole == FindField(so_far.table, field)
    IN  IF whole # 0
        THEN [so_far EXCEPT !.block = Append(@, Indexed(whole))]
        ELSE [table |-> Insert(so_far.table, field),
              block |-> Append(so_far.block,
                               Literal(FindName(so_far.table, field), field))]

(* encode: the announcement that is due, and the fields one by one.        *)
Encoded_AnnouncedLast(fields) ==
    LET so_far[n \in 0..Len(fields)] ==
            IF n = 0 THEN [table |-> encoder, block |-> << >>]
            ELSE EncodeField(so_far[n - 1], fields[n])
        result == so_far[Len(fields)]
    IN  IF pending = NoSize THEN result
        ELSE [result EXCEPT !.block = Append(@, Update(pending))]
Announced == IF pending = NoSize THEN << >> ELSE <<Update(pending)>>
Encoded(fields) ==
    LET so_far[n \in 0..Len(fields)] ==
            IF n = 0 THEN [table |-> encoder, block |-> Announced]
            ELSE EncodeField(so_far[n - 1], fields[n])
    IN  so_far[Len(fields)]

(* The field a literal carries: its value, under the name its index finds. *)
LiteralField(table, rep) ==
    IF rep.index = 0 THEN rep.field
    ELSE [rep.field EXCEPT !.name = Get(table, rep.index).name]

(* One representation decoded; an error ends the connection. A plain       *)
(* literal, which this encoder never writes, leaves the table alone.       *)
DecodeRep(so_far, rep) ==
    IF so_far.error THEN so_far
    ELSE CASE rep.op = "indexed" ->
                IF Holds(so_far.table, rep.index)
                THEN [so_far EXCEPT
                        !.fields = Append(@, Get(so_far.table, rep.index))]
                ELSE [so_far EXCEPT !.error = TRUE]
           [] rep.op = "literal" ->
                IF rep.index = 0 \/ Holds(so_far.table, rep.index)
                THEN LET field == LiteralField(so_far.table, rep)
                     IN  [so_far EXCEPT !.table = Insert(@, field),
                                        !.fields = Append(@, field)]
                ELSE [so_far EXCEPT !.error = TRUE]
           [] rep.op = "plain" ->
                IF rep.index = 0 \/ Holds(so_far.table, rep.index)
                THEN [so_far EXCEPT
                        !.fields = Append(@, LiteralField(so_far.table, rep))]
                ELSE [so_far EXCEPT !.error = TRUE]
           [] rep.op = "update" ->
                IF so_far.fields = << >> /\ rep.size <= Limit
                THEN [so_far EXCEPT !.table = Resize(@, rep.size)]
                ELSE [so_far EXCEPT !.error = TRUE]

(* decode: a block's representations one by one.                           *)
NothingRead(table) == [table |-> table, fields |-> << >>, error |-> FALSE]
Decoded(table, block) ==
    LET so_far[n \in 0..Len(block)] ==
            IF n = 0 THEN NothingRead(table)
            ELSE DecodeRep(so_far[n - 1], block[n])
    IN  so_far[Len(block)]

-----------------------------------------------------------------------------
NewTable == [entries |-> << >>, max |-> Limit]

Init ==
    /\ encoder = NewTable
    /\ pending = NoSize
    /\ decoder = NewTable
    /\ blocks = << >>
    /\ last = [sent |-> << >>, read |-> << >>, error |-> FALSE]

(* Encoder::resize: SETTINGS arrived; the change is announced later.       *)
ResizeEncoder_NotEvicted(max) ==
    /\ max # encoder.max
    /\ encoder' = [encoder EXCEPT !.max = max]
    /\ pending' = max
    /\ UNCHANGED <<decoder, blocks, last>>
ResizeEncoder(max) ==
    /\ max # encoder.max
    /\ encoder' = Resize(encoder, max)
    /\ pending' = max
    /\ UNCHANGED <<decoder, blocks, last>>

Encode(fields) ==
    /\ Len(blocks) < MaxInFlight
    /\ encoder' = Encoded(fields).table
    /\ pending' = NoSize
    /\ blocks' = Append(blocks, [block |-> Encoded(fields).block,
                                 fields |-> fields])
    /\ UNCHANGED <<decoder, last>>

Decode ==
    /\ blocks # << >> /\ ~last.error
    /\ LET result == Decoded(decoder, Head(blocks).block)
       IN  /\ decoder' = result.table
           /\ last' = [sent |-> Head(blocks).fields, read |-> result.fields,
                       error |-> result.error]
    /\ blocks' = Tail(blocks)
    /\ UNCHANGED <<encoder, pending>>

Next ==
    \/ \E max \in Sizes : ResizeEncoder(max)
    \/ \E n \in 0..MaxFields : \E fields \in [1..n -> FieldSet] :
            Encode(fields)
    \/ Decode

Spec == Init /\ [][Next]_vars

-----------------------------------------------------------------------------
(* The decoder reads every list as it was sent, though sizes change while  *)
(* blocks are on their way and two changes are announced as one.           *)
ReadAsSent == ~last.error /\ Len(last.read) = Len(last.sent)
    /\ \A i \in DOMAIN last.sent : Same(last.sent[i], last.read[i])

(* Neither table holds more than it may.                                   *)
TablesBounded ==
    /\ Cost(encoder.entries) <= encoder.max
    /\ Cost(decoder.entries) <= decoder.max

(* With no block on its way, the decoder holds at least what the encoder   *)
(* does, at the same indices: every index the encoder writes is right.     *)
EncoderIsPrefix ==
    blocks = << >> /\ ~last.error => IsPrefix(encoder.entries, decoder.entries)
===============================================================================
