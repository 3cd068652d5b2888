----------------------------- MODULE Encodings -----------------------------
(***************************************************************************)
(* What is written to disk and to the wire, and read back: the objects of  *)
(* the store (crates/omoplata-store/src/object.rs), the objects of git     *)
(* (crates/omoplata-git/src/object.rs) and the pkt-lines of its protocol   *)
(* (crates/omoplata-git/src/wire/pkt.rs).                                  *)
(*                                                                         *)
(* A line is the sequence of its words: a line that begins with a space    *)
(* has the empty word first.  An encoded object is [kind, size, body] with *)
(* a body in lines, or in bytes for a tree of git.  Refused is every       *)
(* error of a decoder.                                                     *)
(***************************************************************************)
EXTENDS Integers, SequencesExt, FiniteSetsExt

CONSTANTS
  NameOrder,  \* the names a tree may have, sequences of words, in their order
  HexOids,    \* the words that are 40 hex digits
  OID_LEN,    \* the bytes of a raw oid
  MAX_PAYLOAD,  \* of a pkt-line
  Refused

----------------------------------------------------------------------------
(* The store's trees: entries sorted by name, each name once.              *)

Entry(kind, id, name) == [kind |-> kind, id |-> id, name |-> name]

LOCAL Rank(name) == CHOOSE k \in DOMAIN NameOrder : NameOrder[k] = name

(* Replaces the entry of that name; names outside NameOrder are invalid.   *)
TreeInsert(tree, e) ==
  IF e.name \notin ToSet(NameOrder) THEN Refused
  ELSE SelectSeq(tree, LAMBDA x : Rank(x.name) < Rank(e.name)) \o <<e>>
         \o SelectSeq(tree, LAMBDA x : Rank(x.name) > Rank(e.name))

Serialize(tree) ==
  [kind |-> "tree", size |-> Len(tree),
   body |-> [k \in DOMAIN tree |-> <<tree[k].kind, tree[k].id>> \o tree[k].name]]

(* Kind, id and then the name, which may contain spaces.                   *)
ParseTreeLine(line) ==
  IF Len(line) < 3 THEN Refused
  ELSE IF line[1] \notin {"blob", "tree"} \/ line[2] \notin HexOids THEN Refused
  ELSE Entry(line[1], line[2], SubSeq(line, 3, Len(line)))

ParseTree(body) ==
  FoldLeft(LAMBDA tree, line :
             IF tree = Refused \/ ParseTreeLine(line) = Refused THEN Refused
             ELSE TreeInsert(tree, ParseTreeLine(line)),
           <<>>, body)

Deserialize(object) ==
  IF object.size # Len(object.body) THEN Refused ELSE ParseTree(object.body)

----------------------------------------------------------------------------
(* Trees of git, in bytes: mode, space, name, NUL and a raw oid.  Decoding *)
(* keeps what it finds, in its order.                                      *)

SP  == 32
NUL == 0

EncodeTree(entries) ==
  FlattenSeq([k \in DOMAIN entries |->
    entries[k].mode \o <<SP>> \o entries[k].name \o <<NUL>> \o entries[k].oid])

DecodeTree(body) ==
  LET First(byte, i) ==
        LET at == {k \in i .. Len(body) : body[k] = byte} IN IF at = {} THEN 0 ELSE Min(at)
      from[i \in 1 .. Len(body) + 1] ==
        IF i > Len(body) THEN <<>>
        ELSE LET sp  == First(SP, i)
                 nul == IF sp = 0 THEN 0 ELSE First(NUL, sp + 1)
                 end == nul + OID_LEN + 1
             IN IF nul = 0 \/ end > Len(body) + 1 THEN Refused
                ELSE IF from[end] = Refused THEN Refused
                ELSE <<[mode |-> SubSeq(body, i, sp - 1), name |-> SubSeq(body, sp + 1, nul - 1),
                        oid |-> SubSeq(body, nul + 1, end - 1)]>> \o from[end]
  IN from[1]

----------------------------------------------------------------------------
(* Commits and tags of git: headers, an empty line and the message.        *)

(* A bug it could have: the last empty line ends the headers.              *)
SplitHeaders_AtLast(body) ==
  LET blank == {k \in 2 .. Len(body) - 1 : body[k] = <<>>}
  IN IF blank = {} THEN [headers |-> body, message |-> <<>>]
     ELSE [headers |-> SubSeq(body, 1, Max(blank) - 1),
           message |-> SubSeq(body, Max(blank) + 1, Len(body))]

(* The first empty line that ends a line and has one after it.             *)
SplitHeaders(body) ==
  LET blank == {k \in 2 .. Len(body) - 1 : body[k] = <<>>}
  IN IF blank = {} THEN [headers |-> body, message |-> <<>>]
     ELSE [headers |-> SubSeq(body, 1, Min(blank) - 1),
           message |-> SubSeq(body, Min(blank) + 1, Len(body))]

LOCAL IsContinuation(line) == Len(line) > 1 /\ line[1] = ""

(* <<key, value>> in order, a value being the words of its lines.          *)
ParseHeaders(block) ==
  FoldLeft(LAMBDA headers, line :
             IF IsContinuation(line)
             THEN IF headers = <<>> THEN headers
                  ELSE [headers EXCEPT ![Len(headers)][2] = @ \o Tail(line)]
             ELSE Append(headers, IF line = <<>> THEN <<"", <<>>>> ELSE <<Head(line), Tail(line)>>),
           <<>>, block)

LOCAL Trim(value) == SelectSeq(value, LAMBDA word : word # "")

LOCAL IsOid(value) == Len(Trim(value)) = 1 /\ Trim(value)[1] \in HexOids

(* What the header key says, each time it occurs.                          *)
LOCAL Said(headers, key) ==
  LET those == SelectSeq(headers, LAMBDA h : h[1] = key)
  IN [k \in DOMAIN those |-> those[k][2]]

(* The last one counts; without one the field is empty.                    *)
LOCAL LastSaid(headers, key) ==
  LET said == Said(headers, key) IN IF said = <<>> THEN <<>> ELSE Last(said)

(* The fields of a commit, and its body as it was.                         *)
ParseCommit(body) ==
  LET parts   == SplitHeaders(body)
      headers == ParseHeaders(parts.headers)
      tree    == Said(headers, "tree")
      parents == Said(headers, "parent")
  IN IF \/ tree = <<>>
        \/ \E value \in ToSet(tree \o parents) : ~ IsOid(value)
     THEN Refused
     ELSE [tree |-> Trim(Last(tree))[1],
           parents |-> [k \in DOMAIN parents |-> Trim(parents[k])[1]],
           author |-> LastSaid(headers, "author"), committer |-> LastSaid(headers, "committer"),
           message |-> parts.message, body |-> body]

ParseTag(body) ==
  LET parts   == SplitHeaders(body)
      headers == ParseHeaders(parts.headers)
      object  == Said(headers, "object")
  IN IF object = <<>> \/ \E value \in ToSet(object) : ~ IsOid(value) THEN Refused
     ELSE [object |-> Trim(Last(object))[1], type |-> LastSaid(headers, "type"),
           tag |-> LastSaid(headers, "tag"), tagger |-> LastSaid(headers, "tagger"),
           message |-> parts.message, body |-> body]

Encode(kind, object) ==
  LET body == CASE kind = "tree" -> EncodeTree(object)
                [] kind = "blob" -> object
                [] OTHER         -> object.body
  IN [kind |-> kind, size |-> Len(body), body |-> body]

Decode(encoded) ==
  IF encoded.size # Len(encoded.body) THEN Refused
  ELSE CASE encoded.kind = "blob"   -> encoded.body
         [] encoded.kind = "tree"   -> DecodeTree(encoded.body)
         [] encoded.kind = "commit" -> ParseCommit(encoded.body)
         [] encoded.kind = "tag"    -> ParseTag(encoded.body)
         [] OTHER                   -> Refused

----------------------------------------------------------------------------
(* Pkt-lines.  The four hex digits of a length are one element of a stream *)
(* and the payload's bytes follow; NotHex stands for other digits.         *)

NotHex == -1

WriteFlush == <<0>>

WritePktLine(payload) ==
  IF Len(payload) > MAX_PAYLOAD THEN Refused ELSE <<Len(payload) + 4>> \o payload

(* The first pkt-line and the rest of the stream.                          *)
ReadPkt(stream) ==
  IF stream = <<>> THEN Refused
  ELSE LET n == Head(stream)
       IN IF n \in 0 .. 2 THEN [data |-> FALSE, rest |-> Tail(stream)]
          ELSE IF n \in {NotHex, 3} \/ n - 4 > Len(stream) - 1 THEN Refused
          ELSE [data |-> TRUE, payload |-> SubSeq(stream, 2, n - 3),
                rest |-> SubSeq(stream, n - 2, Len(stream))]

(* The data lines up to the first that is not: a flush, a delimiter or an  *)
(* end of response.                                                        *)
ReadSection(stream) ==
  LET from[n \in 0 .. Len(stream)] ==
        LET pkt == ReadPkt(SubSeq(stream, Len(stream) - n + 1, Len(stream)))
        IN IF pkt = Refused THEN Refused
           ELSE IF ~ pkt.data THEN <<>>
           ELSE LET rest == from[Len(pkt.rest)]
                IN IF rest = Refused THEN Refused ELSE <<pkt.payload>> \o rest
  IN from[Len(stream)]
=============================================================================
