----------------------------- MODULE DnsMessage -----------------------------
(***************************************************************************)
(* The DNS message format: MsgWriter and Message::encode, MsgReader and    *)
(* Message::decode (src/resolve/message.rs), the record types of           *)
(* src/resolve/record.rs and the labels of src/resolve/idna.rs, on octets. *)
(* A message goes through the program's own encoder, or through that of a  *)
(* name server, which may compress names, and is then decoded; on the way  *)
(* it may be cut off. A name is a sequence of labels with or without a     *)
(* final dot, a label a sequence of character codes.                       *)
(***************************************************************************)
EXTENDS Naturals, Sequences, SequencesExt, Functions, TLC

CONSTANTS MESSAGE_LIMIT, LABEL_LIMIT, NAME_LIMIT,
          Punycode,   \* external_idna: from non-ASCII labels to "xn--" labels
          Inputs      \* the messages to encode

(* A length octet below 64 is a label's; offsets fit in 14 bits. *)
ASSUME LimitAssumption ==
  /\ LABEL_LIMIT \in 1..63 /\ NAME_LIMIT \in 1..255 /\ MESSAGE_LIMIT \in 12..16383
  /\ IsInjective(Punycode)

VARIABLES input, pc, compress, wire, decoded

msgVars == <<input, pc, compress, wire, decoded>>

------------------------------------------------------------------------------
(* Enumerations: a value is a kind, or "Other" with its number. *)

OpCodes == [Query |-> 0, Status |-> 2, Notify |-> 4, Update |-> 5]
RCodes == [NoError |-> 0, FormatError |-> 1, ServerFailure |-> 2, NameError |-> 3,
           NotImplemented |-> 4, Refused |-> 5]
Classes == [Internet |-> 1, Any |-> 255]
RecordTypes == [A |-> 1, AAAA |-> 28, CName |-> 5, Mx |-> 15, Ns |-> 2, Ptr |-> 12,
                Soa |-> 6, Srv |-> 33, Txt |-> 16]

Kind(k) == [kind |-> k, n |-> 0]

(* from_u8, from_u16 *)
FromCode(codes, u) ==
  IF u \in Range(codes) THEN Kind(CHOOSE k \in DOMAIN codes : codes[k] = u)
  ELSE [kind |-> "Other", n |-> u]

(* to_u8, to_u16 *)
ToCode(codes, e) == IF e.kind = "Other" THEN e.n ELSE codes[e.kind]

------------------------------------------------------------------------------
(* Labels *)

Ascii(s) == \A c \in Range(s) : c < 128
NoLabel == <<0>>     \* an error of external_idna

to_ascii(s) ==
  IF Ascii(s) THEN s ELSE IF s \in DOMAIN Punycode THEN Punycode[s] ELSE NoLabel

to_unicode(s) ==
  IF ~IsPrefix(<<120, 110, 45, 45>>, s) THEN s
  ELSE IF s \in Range(Punycode) THEN CHOOSE u \in DOMAIN Punycode : Punycode[u] = s
  ELSE NoLabel

(* No hyphen at either end, no dot, white space or control character. *)
is_valid_segment(s) ==
  /\ s # <<>> => Head(s) # 45 /\ Last(s) # 45
  /\ \A c \in Range(s) : c > 32 /\ c \notin {46, 127}

(* No empty label, and not the empty string. *)
is_valid_name(name) ==
  (name.labels # <<>> \/ name.dot) /\ \A i \in DOMAIN name.labels : name.labels[i] # <<>>

------------------------------------------------------------------------------
(* MsgWriter: the octets written so far, or the error. *)

Writer == [out |-> <<>>, err |-> "none", total |-> 0]

Write(w, octets) ==
  IF w.err # "none" THEN w
  ELSE IF Len(w.out) + Len(octets) > MESSAGE_LIMIT THEN [w EXCEPT !.err = "TooLong"]
  ELSE [w EXCEPT !.out = @ \o octets]

U16(n) == <<n \div 256, n % 256>>
U32(n) == U16(n \div 65536) \o U16(n % 65536)

write_character_string(w, data) ==
  IF w.err # "none" THEN w
  ELSE IF Len(data) > 255 THEN [w EXCEPT !.err = "TooLong"]
  ELSE Write(w, <<Len(data)>> \o data)

(* Variant: the size octet is not counted. *)
TooLongNoOctet(total, seg) == total + Len(seg) > NAME_LIMIT

(* The size octet and the segment. *)
NameTooLong(total, seg) == total + 1 + Len(seg) > NAME_LIMIT

WriteSegment(w, label) ==
  LET seg == to_ascii(label)
  IN IF w.err # "none" THEN w
     ELSE IF seg = NoLabel \/ ~is_valid_segment(seg) \/ Len(seg) > LABEL_LIMIT
             \/ NameTooLong(w.total, seg)
     THEN [w EXCEPT !.err = "InvalidName"]
     ELSE [Write(w, <<Len(seg)>> \o seg) EXCEPT !.total = @ + 1 + Len(seg)]

(* The last segment is empty: that after the final dot, or one added. *)
write_name(w, name) ==
  IF w.err # "none" THEN w
  ELSE IF ~is_valid_name(name) THEN [w EXCEPT !.err = "InvalidName"]
  ELSE IF name.labels = <<>> THEN Write(w, <<0>>)
  ELSE FoldLeft(WriteSegment, [w EXCEPT !.total = 0], Append(name.labels, <<>>))

Bit(b) == IF b THEN 1 ELSE 0

write_header(w, msg) ==
  LET h == msg.header
  IN Write(w, U16(h.id)
              \o <<128 * Bit(h.qr = "Response") + 8 * (ToCode(OpCodes, h.op) % 16)
                     + 4 * Bit(h.authoritative) + 2 * Bit(h.truncated)
                     + Bit(h.recursion_desired),
                   128 * Bit(h.recursion_available) + (ToCode(RCodes, h.rcode) % 16)>>
              \o U16(Len(msg.question)) \o U16(Len(msg.answer))
              \o U16(Len(msg.authority)) \o U16(Len(msg.additional)))

write_question(w, q) ==
  Write(write_name(w, q.name), U16(ToCode(RecordTypes, q.q_type)) \o U16(ToCode(Classes, q.q_class)))

get_rdata(r) == SubSeq(r.data, r.offset + 1, Len(r.data))

(* The fixed part of a record, before its data. *)
ResourceData(r, length) ==
  U16(ToCode(RecordTypes, r.r_type)) \o U16(ToCode(Classes, r.r_class)) \o U32(r.ttl) \o U16(length)

write_resource(w, r) ==
  Write(Write(write_name(w, r.name), ResourceData(r, Len(get_rdata(r)))), get_rdata(r))

(* Message::encode; that a count or a length fits in 16 bits follows from  *)
(* MESSAGE_LIMIT.                                                          *)
encode(msg) ==
  LET q == FoldLeft(write_question, write_header(Writer, msg), msg.question)
  IN FoldLeft(write_resource, q, msg.answer \o msg.authority \o msg.additional)

------------------------------------------------------------------------------
(* MsgReader: reading at a position gives a value and the next position,   *)
(* or an error. "panic" is the slice of read_resource beyond the end.      *)

Got(val, pos) == [err |-> "none", val |-> val, pos |-> pos]
Failed(err) == [err |-> err]

(* try!(r), then op on the value and the position. *)
Then(r, op(_, _)) == IF r.err = "none" THEN op(r.val, r.pos) ELSE r

(* Variant: a short read succeeds. *)
ReadSome(d, p, n) ==
  LET all == SubSeq(d, p + 1, Min({p + n, Len(d)}))
  IN Got([i \in 1..n |-> IF i <= Len(all) THEN all[i] ELSE 0], p + Len(all))

Read(d, p, n) ==
  IF p + n <= Len(d) THEN Got(SubSeq(d, p + 1, p + n), p + n) ELSE Failed("ShortMessage")

BigEndian(octets) == FoldLeft(LAMBDA n, octet : 256 * n + octet, 0, octets)

(* read_byte, read_u16, read_u32 *)
ReadNumber(d, p, n) == Then(Read(d, p, n), LAMBDA octets, q : Got(BigEndian(octets), q))

read_character_string(d, p) == Then(ReadNumber(d, p, 1), LAMBDA n, q : Read(d, q, n))

read_segment(d, p, len) ==
  Then(Read(d, p, len), LAMBDA seg, q :
    IF ~Ascii(seg) \/ ~is_valid_segment(seg) \/ to_unicode(seg) = NoLabel
    THEN Failed("InvalidName") ELSE Got(to_unicode(seg), q))

(* Variant: the position after the last pointer is restored. *)
RestoreLast(restore, q) == q

(* Where reading goes on after a name with pointers: behind the first. *)
Restore(restore, q) == IF restore = 0 THEN q ELSE restore

(* The loop of read_name. The pointers of the messages read here, those of *)
(* a name server, point before themselves, so that it ends.                *)
RECURSIVE ReadLabels(_, _, _, _, _, _)
ReadLabels(d, start_pos, p, restore, labels, total_read) ==
  Then(ReadNumber(d, p, 1), LAMBDA len, q :
    IF len = 0
    THEN IF total_read + 1 > NAME_LIMIT THEN Failed("InvalidName")
         ELSE Got([labels |-> labels, dot |-> TRUE], IF restore = 0 THEN q ELSE restore)
    ELSE IF len >= 192
    THEN Then(ReadNumber(d, q, 1), LAMBDA lo, r :
           LET offset == 256 * (len % 64) + lo
           IN IF offset >= start_pos THEN Failed("InvalidName")
              ELSE ReadLabels(d, start_pos, offset, Restore(restore, r), labels, total_read))
    ELSE IF len >= 64 THEN Failed("InvalidMessage")
    ELSE IF total_read + 1 + len > NAME_LIMIT THEN Failed("InvalidName")
    ELSE Then(read_segment(d, q, len), LAMBDA label, r :
           ReadLabels(d, start_pos, r, restore, Append(labels, label), total_read + 1 + len)))

read_name(d, p) == ReadLabels(d, p, p, 0, <<>>, 0)

(* The opcode is masked and not shifted. *)
Flags(f0, f1) ==
  [qr |-> IF f0 >= 128 THEN "Response" ELSE "Query",
   op |-> FromCode(OpCodes, (f0 % 128) - (f0 % 8)),
   authoritative |-> (f0 \div 4) % 2 = 1, truncated |-> (f0 \div 2) % 2 = 1,
   recursion_desired |-> f0 % 2 = 1, recursion_available |-> f1 >= 128,
   rcode |-> FromCode(RCodes, f1 % 16)]

(* The header, and the number of items of each section. *)
read_header(d, p) ==
  Then(Read(d, p, 12), LAMBDA b, q :
    Got([header |-> [id |-> 256 * b[1] + b[2]] @@ Flags(b[3], b[4]),
         counts |-> [i \in 1..4 |-> 256 * b[3 + 2 * i] + b[4 + 2 * i]]], q))

read_question(d, p) ==
  Then(read_name(d, p), LAMBDA name, q :
    Then(Read(d, q, 4), LAMBDA b, r :
      Got([name |-> name, q_type |-> FromCode(RecordTypes, 256 * b[1] + b[2]),
           q_class |-> FromCode(Classes, 256 * b[3] + b[4])], r)))

read_resource(d, p) ==
  Then(read_name(d, p), LAMBDA name, q :
    Then(Read(d, q, 10), LAMBDA b, offset :
      LET end == offset + 256 * b[9] + b[10]
      IN IF end > Len(d) THEN Failed("panic")
         ELSE Got([name |-> name, r_type |-> FromCode(RecordTypes, 256 * b[1] + b[2]),
                   r_class |-> FromCode(Classes, 256 * b[3] + b[4]),
                   ttl |-> BigEndian(SubSeq(b, 5, 8)),
                   data |-> SubSeq(d, 1, end), offset |-> offset], end)))

(* The items of a section. *)
ReadItems(d, p, n, what) ==
  FoldLeft(LAMBDA r, i : Then(r, LAMBDA items, q :
             Then(IF what = "question" THEN read_question(d, q) ELSE read_resource(d, q),
                  LAMBDA item, s : Got(Append(items, item), s))),
           Got(<<>>, p), [i \in 1..n |-> i])

finish(r, d) == IF r.err = "none" /\ r.pos # Len(d) THEN Failed("ExtraneousData") ELSE r

(* Message::decode *)
decode(d) ==
  finish(Then(read_header(d, 0), LAMBDA h, p :
    Then(ReadItems(d, p, h.counts[1], "question"), LAMBDA question, q :
      Then(ReadItems(d, q, h.counts[2], "resource"), LAMBDA answer, r :
        Then(ReadItems(d, r, h.counts[3], "resource"), LAMBDA authority, s :
          Then(ReadItems(d, s, h.counts[4], "resource"), LAMBDA additional, t :
            Got([header |-> h.header, question |-> question, answer |-> answer,
                 authority |-> authority, additional |-> additional], t)))))), d)

------------------------------------------------------------------------------
(* Records: the fields of each kind, in order, and a record as the         *)
(* sequence of their values.                                               *)

A == <<"u8", "u8", "u8", "u8">>
AAAA == <<"u16", "u16", "u16", "u16", "u16", "u16", "u16", "u16">>
CName == <<"name">>
Mx == <<"u16", "name">>
Ns == <<"name">>
Ptr == <<"name">>
Soa == <<"name", "name", "u32", "u32", "u32", "u32", "u32">>
Srv == <<"u16", "u16", "u16", "name">>
Txt == <<"string">>

Fields == [A |-> A, AAAA |-> AAAA, CName |-> CName, Mx |-> Mx, Ns |-> Ns, Ptr |-> Ptr,
           Soa |-> Soa, Srv |-> Srv, Txt |-> Txt]

WriteField(w, field, val) ==
  CASE field = "u8" -> Write(w, <<val>>)
    [] field = "u16" -> Write(w, U16(val))
    [] field = "u32" -> Write(w, U32(val))
    [] field = "name" -> write_name(w, val)
    [] field = "string" -> write_character_string(w, val)

ReadField(d, p, field) ==
  CASE field = "u8" -> ReadNumber(d, p, 1)
    [] field = "u16" -> ReadNumber(d, p, 2)
    [] field = "u32" -> ReadNumber(d, p, 4)
    [] field = "name" -> read_name(d, p)
    [] field = "string" -> read_character_string(d, p)

(* Resource::new and write_rdata: the record is written on its own. *)
write_rdata(rec) ==
  FoldLeftDomain(LAMBDA w, i : WriteField(w, Fields[rec.kind][i], rec.vals[i]), Writer, rec.vals)

NewResource(rec) ==
  [name |-> rec.name, r_type |-> Kind(rec.kind), r_class |-> Kind("Internet"), ttl |-> rec.ttl,
   data |-> write_rdata(rec).out, offset |-> 0]

(* read_rdata: the record is read in place, in the message up to its end. *)
read_rdata(r, kind) ==
  finish(FoldLeft(LAMBDA got, field : Then(got, LAMBDA vals, p :
           Then(ReadField(r.data, p, field), LAMBDA val, q : Got(Append(vals, val), q))),
         Got(<<>>, r.offset), Fields[kind]), r.data)

(* Variant: the records of a kind in all sections. *)
resolve_record_all(reply, kind) ==
  LET rrs == SelectSeq(reply.answer \o reply.authority \o reply.additional,
                       LAMBDA rr : rr.r_type = Kind(kind))
  IN [i \in DOMAIN rrs |-> read_rdata(rrs[i], kind)]

(* resolve_record and its like: the records of a kind in the answer. *)
resolve_record(reply, kind) ==
  LET rrs == SelectSeq(reply.answer, LAMBDA rr : rr.r_type = Kind(kind))
  IN [i \in DOMAIN rrs |-> read_rdata(rrs[i], kind)]

------------------------------------------------------------------------------
(* A name server (external). Its names are compressed or not: the longest  *)
(* ending that it wrote before is replaced by a pointer.                   *)

ServerName(w, name, pack) ==
  LET labels == [i \in DOMAIN name.labels |-> to_ascii(name.labels[i])]
      n == Len(labels)
      Ending(i) == SubSeq(labels, i, n)
      known == {i \in 1..n : pack /\ Ending(i) \in DOMAIN w.table}
      k == IF known = {} THEN n + 1 ELSE Min(known)
      Octets(i) == <<Len(labels[i])>> \o labels[i]
      At(i) == Len(w.out) + Len(FlattenSeq([j \in 1..(i - 1) |-> Octets(j)]))
  IN [out |-> w.out \o FlattenSeq([j \in 1..(k - 1) |-> Octets(j)])
              \o (IF known = {} THEN <<0>> ELSE U16(49152 + w.table[Ending(k)])),
      table |-> [e \in {Ending(i) : i \in 1..(k - 1)} |->
                   At(CHOOSE i \in 1..(k - 1) : Ending(i) = e)] @@ w.table]

(* In the data of Srv records names are not compressed. *)
ServerField(w, field, val, kind, pack) ==
  IF field = "name" THEN ServerName(w, val, pack /\ kind # "Srv")
  ELSE [w EXCEPT !.out = @ \o WriteField(Writer, field, val).out]

ServerRecord(w, rec, pack) ==
  LET named == ServerName(w, rec.name, pack)
      start == Len(named.out) + 10
      whole == FoldLeftDomain(LAMBDA v, i : ServerField(v, Fields[rec.kind][i], rec.vals[i], rec.kind, pack),
                 [named EXCEPT !.out = @ \o ResourceData(NewResource(rec), 0)], rec.vals)
      length == U16(Len(whole.out) - start)
  IN [whole EXCEPT !.out = [@ EXCEPT ![start - 1] = length[1], ![start] = length[2]]]

Server(msg, pack) ==
  LET q == FoldLeft(LAMBDA w, item :
               LET v == ServerName(w, item.name, pack)
               IN [v EXCEPT !.out = @ \o U16(ToCode(RecordTypes, item.q_type))
                                      \o U16(ToCode(Classes, item.q_class))],
             [out |-> write_header(Writer, msg).out, table |-> <<>>], msg.question)
  IN FoldLeft(LAMBDA w, rec : ServerRecord(w, rec, pack), q,
              msg.answer \o msg.authority \o msg.additional).out

------------------------------------------------------------------------------
(* A message on its way *)

Sections(msg, f(_)) ==
  [msg EXCEPT !.answer = [i \in DOMAIN @ |-> f(@[i])],
              !.authority = [i \in DOMAIN @ |-> f(@[i])],
              !.additional = [i \in DOMAIN @ |-> f(@[i])]]

Records(msg) == msg.answer \o msg.authority \o msg.additional

(* What the program's own encoder makes of a message. *)
Encoded(msg) ==
  LET bad == SelectSeq(Records(msg), LAMBDA rec : write_rdata(rec).err # "none")
  IN IF bad # <<>> THEN write_rdata(Head(bad)) ELSE encode(Sections(msg, NewResource))

MsgInit ==
  /\ input \in Inputs /\ pc = "new" /\ compress = FALSE
  /\ wire = <<>> /\ decoded = Failed("none yet")

Encode ==
  /\ pc = "new"
  /\ LET w == Encoded(input)
     IN IF w.err = "none" THEN wire' = w.out /\ pc' = "sent"
        ELSE pc' = "refused" /\ UNCHANGED wire
  /\ UNCHANGED <<input, compress, decoded>>

(* The other way to the wire: a name server sends the message. *)
Serve ==
  /\ pc = "new" /\ Encoded(input).err = "none"
  /\ compress' \in BOOLEAN
  /\ wire' = Server(input, compress') /\ pc' = "sent"
  /\ UNCHANGED <<input, decoded>>

(* Only the beginning arrives. *)
Cut ==
  /\ pc = "sent"
  /\ \E n \in 0..(Len(wire) - 1) : wire' = SubSeq(wire, 1, n)
  /\ pc' = "cut"
  /\ UNCHANGED <<input, compress, decoded>>

Decode ==
  /\ pc \in {"sent", "cut"}
  /\ decoded' = decode(wire)
  /\ pc' = IF pc = "cut" THEN "cut_read" ELSE "read"
  /\ UNCHANGED <<input, compress, wire>>

MsgNext == Encode \/ Serve \/ Cut \/ Decode

MsgSpec == MsgInit /\ [][MsgNext]_msgVars

(* The types of the variables; a message on the wire is a sequence of      *)
(* octets no longer than MESSAGE_LIMIT.                                    *)
MsgTypeOK ==
  /\ input \in Inputs /\ compress \in BOOLEAN
  /\ pc \in {"new", "refused", "sent", "cut", "read", "cut_read"}
  /\ wire \in Seq(0..255) /\ Len(wire) <= MESSAGE_LIMIT

------------------------------------------------------------------------------
(* Properties *)

(* A name as it is read: with its final dot. *)
Dotted(name) == [name EXCEPT !.dot = TRUE]
DottedFields(rec) ==
  [i \in DOMAIN rec.vals |->
     IF Fields[rec.kind][i] = "name" THEN Dotted(rec.vals[i]) ELSE rec.vals[i]]

SameRecord(rec, r) ==
  /\ r.name = Dotted(rec.name) /\ r.r_type = Kind(rec.kind) /\ r.ttl = rec.ttl
  /\ LET got == read_rdata(r, rec.kind) IN got.err = "none" /\ got.val = DottedFields(rec)

SameRecords(recs, rs) ==
  Len(recs) = Len(rs) /\ \A i \in DOMAIN recs : SameRecord(recs[i], rs[i])

(* A message that arrives whole, from the program's own encoder or from a  *)
(* name server that compresses names, is decoded to what was sent: header, *)
(* questions, and the records of every section, whose data are read back   *)
(* field by field although they may point into the rest of the message.    *)
(* Names get a final dot; the opcode is read back only if it is Query.     *)
ReadsWhatWasSent ==
  pc = "read" =>
    /\ decoded.err = "none"
    /\ LET msg == decoded.val
       IN /\ [msg.header EXCEPT !.op = input.header.op] = input.header
          /\ input.header.op = Kind("Query") => msg.header.op = Kind("Query")
          /\ msg.question = [i \in DOMAIN input.question |->
                               [input.question[i] EXCEPT !.name = Dotted(@)]]
          /\ SameRecords(input.answer, msg.answer)
          /\ SameRecords(input.authority, msg.authority)
          /\ SameRecords(input.additional, msg.additional)

(* The answers a lookup takes from a reply are the records of its kind, in *)
(* the order in which the server gave them, and nothing of other sections. *)
AnswersAreTheirs ==
  pc = "read" => \A kind \in DOMAIN Fields :
    LET theirs == SelectSeq(input.answer, LAMBDA rec : rec.kind = kind)
        got == resolve_record(decoded.val, kind)
    IN /\ Len(got) = Len(theirs)
       /\ \A i \in DOMAIN got : got[i].err = "none" /\ got[i].val = DottedFields(theirs[i])

(* A message that arrives cut off is never taken for a message. *)
CutNotAccepted == pc = "cut_read" => decoded.err # "none"

SumSeq(s) == FoldLeft(LAMBDA m, n : m + n, 0, s)

Size(name) == 1 + SumSeq([i \in DOMAIN name.labels |-> 1 + Len(to_ascii(name.labels[i]))])

NameFits(name) ==
  /\ is_valid_name(name) /\ Size(name) <= NAME_LIMIT
  /\ \A i \in DOMAIN name.labels :
       LET seg == to_ascii(name.labels[i])
       IN seg # NoLabel /\ is_valid_segment(seg) /\ Len(seg) <= LABEL_LIMIT

FieldSize(field, val) ==
  CASE field = "u8" -> 1 [] field = "u16" -> 2 [] field = "u32" -> 4
    [] field = "name" -> Size(val) [] field = "string" -> 1 + Len(val)

DataSize(rec) == SumSeq([i \in DOMAIN rec.vals |-> FieldSize(Fields[rec.kind][i], rec.vals[i])])

RecordFits(rec) ==
  /\ NameFits(rec.name)
  /\ \A i \in DOMAIN rec.vals :
       /\ Fields[rec.kind][i] = "name" => NameFits(rec.vals[i])
       /\ Fields[rec.kind][i] = "string" => Len(rec.vals[i]) <= 255

(* The encoder refuses a message exactly if one of its names breaks a      *)
(* limit or rule, a string is too long, or the whole is longer than        *)
(* MESSAGE_LIMIT; otherwise the message has the length that the format     *)
(* gives it.                                                               *)
(* The variables keep their types.                                         *)
RefusesExactly ==
  LET fits == /\ \A i \in DOMAIN input.question : NameFits(input.question[i].name)
              /\ \A i \in DOMAIN Records(input) : RecordFits(Records(input)[i])
      size == 12 + SumSeq([i \in DOMAIN input.question |-> Size(input.question[i].name) + 4])
                 + SumSeq([i \in DOMAIN Records(input) |->
                             Size(Records(input)[i].name) + 10 + DataSize(Records(input)[i])])
  IN /\ MsgTypeOK
     /\ pc = "refused" => ~fits \/ size > MESSAGE_LIMIT
     /\ pc \in {"sent", "read"} =>
          fits /\ size <= MESSAGE_LIMIT /\ (compress \/ Len(wire) = size)
==============================================================================
