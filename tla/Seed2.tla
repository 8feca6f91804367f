-------------------------------- MODULE Seed2 --------------------------------
(* Schedule seeds (src/seedOrder.cpp, src/seedOrder2.cpp): what a generator    *)
(* run records of its ordering decisions, the file that holds it, and how a    *)
(* later run reads it back and forces the recorded orders.                    *)
(*                                                                           *)
(* A file is a header and a body of typed tokens [k, v], one per field the     *)
(* code writes; a checksum is the payload itself, and a deflate stream is the  *)
(* payload followed by an end mark.                                           *)
EXTENDS SuperGraph, SequencesExt

(* seed2KeyOf, seed2FullKeyOf and seed2NodeKey: a super node is named by its   *)
(* members, and by its whole record when another one has the same members.    *)
Ends(g, S) ==
    {<<k, Cardinality({e \in S : g.mem[e] = k})>> : k \in {g.mem[e] : e \in S}}

FullKey(g, s) ==
    <<g.mem[s], Ends(g, g.prev[s]), Ends(g, g.next[s]), Ends(g, g.depPrev[s]), Ends(g, g.depNext[s])>>

NodeKey(g, s) ==
    IF \E t \in Live(g) \ {s} : g.mem[t] = g.mem[s] THEN <<1, FullKey(g, s)>> ELSE <<0, g.mem[s]>>

(* graph::canonInputHash: the records of the plain super nodes, in no order,  *)
(* mixed by one of two algorithms.                                            *)
CanonInputHash(g, algo) ==
    <<algo, {FullKey(g, s) : s \in {x \in Live(g) : g.type[x] = "valid"}}>>

-----------------------------------------------------------------------------
(* The writer.                                                                *)
EmptyWriter(hash, algo) ==
    [hash |-> hash, algo |-> algo, keys |-> <<>>, points |-> <<>>, groups |-> <<>>]

Intern(w, key) ==
    IF key \in ToSet(w.keys) THEN w ELSE [w EXCEPT !.keys = Append(@, key)]

IdOf(w, key) == (CHOOSE i \in DOMAIN w.keys : w.keys[i] = key) - 1

(* mtSeed2RecordPoint                                                         *)
RecordPoint(w, tag, g) ==
    LET names == [i \in DOMAIN g.sorted |-> NodeKey(g, g.sorted[i])]
        w1 == FoldLeft(Intern, w, names)
    IN [w1 EXCEPT !.points = Append(@,
           [tag |-> tag, algo |-> w.algo, canon |-> CanonInputHash(g, w.algo),
            ids |-> [i \in DOMAIN names |-> IdOf(w1, names[i])]])]

(* mtSeed2RecordWhenGroup, with the keys the super nodes have before the merge. *)
RecordWhenGroup(w, g, group) ==
    LET cond == <<1, FullKey(g, group.cond)>>
        names == [i \in DOMAIN group.sources |-> <<1, FullKey(g, group.sources[i])>>]
        w1 == FoldLeft(Intern, w, <<cond>> \o names)
    IN [w1 EXCEPT !.groups = Append(@,
           [cond |-> IdOf(w1, cond), sources |-> [i \in DOMAIN names |-> IdOf(w1, names[i])]])]

-----------------------------------------------------------------------------
(* The file: mtSeed2Finalize and Seed2Output.                                 *)
Tok(kind, v) == [k |-> kind, v |-> v]

U32s(seq) == <<Tok("u32", Len(seq))>> \o [i \in DOMAIN seq |-> Tok("u32", seq[i])]

Payload(w, version) ==
    LET point(p) == <<Tok("tag", p.tag)>>
                    \o (IF version = 3 THEN <<Tok("u8", p.algo)>> ELSE <<>>)
                    \o <<Tok("u64", p.canon)>> \o U32s(p.ids)
        group(x) == <<Tok("u32", x.cond)>> \o U32s(x.sources)
    IN [i \in DOMAIN w.keys |-> Tok("str", w.keys[i])]
       \o FlattenSeq([i \in DOMAIN w.points |-> point(w.points[i])])
       \o FlattenSeq([i \in DOMAIN w.groups |-> group(w.groups[i])])

OutVersionUntagged(w, codec) == IF codec = "v1" THEN 1 ELSE 2

(* Layout "v1" has no codec header; a point hashed with algorithm 2 needs the  *)
(* version that tags its points.                                              *)
OutVersion(w, codec) ==
    IF codec = "v1" THEN 1 ELSE IF \E i \in DOMAIN w.points : w.points[i].algo = 2 THEN 3 ELSE 2

Body(payload, codec) == IF codec = "zlib" THEN Append(payload, Tok("end", 0)) ELSE payload

Header(w, codec) ==
    [version |-> OutVersion(w, codec), hash |-> w.hash, codec |-> codec,
     counts |-> <<Len(w.points), Len(w.keys), Len(w.groups)>>]

(* The sizes and the checksum are zero until the payload is out and the header *)
(* is patched: a crash in between leaves a prefix of the body behind.         *)
File(header, meta, body) ==
    [header |-> header, raw |-> meta.raw, crc |-> meta.crc, comp |-> meta.comp, body |-> body]

Unpatched == [raw |-> 0, crc |-> <<>>, comp |-> 0]

Meta(payload, codec) ==
    [raw |-> Len(payload), crc |-> payload, comp |-> Len(Body(payload, codec))]

Finalize(w, codec) ==
    LET payload == Payload(w, OutVersion(w, codec))
    IN File(Header(w, codec), Meta(payload, codec), Body(payload, codec))

CrashedFinalize(w, codec, written) ==
    LET body == Body(Payload(w, OutVersion(w, codec)), codec)
    IN File(Header(w, codec), Unpatched, SubSeq(body, 1, Min({written, Len(body)})))

-----------------------------------------------------------------------------
(* The reader: Seed2Input and mtSeed2Load. A read of the wrong kind or past    *)
(* the end of the payload aborts.                                             *)
Take(st, kind) ==
    IF st.ok /\ st.in # <<>> /\ Head(st.in).k = kind
    THEN [st EXCEPT !.in = Tail(@), !.val = Append(@, Head(st.in).v)]
    ELSE [st EXCEPT !.ok = FALSE]

TakeMany(st, kind, n) ==
    IF st.ok /\ n <= Len(st.in) /\ \A i \in 1..n : st.in[i].k = kind
    THEN [st EXCEPT !.in = SubSeq(@, n + 1, Len(@)), !.val = Append(@, [i \in 1..n |-> st.in[i].v])]
    ELSE [st EXCEPT !.ok = FALSE]

TakeIds(st) ==
    LET n == Take(st, "u32")
    IN IF n.ok THEN TakeMany([n EXCEPT !.val = st.val], "u32", Last(n.val)) ELSE n

TakePoint(st, version) ==
    LET t == Take([st EXCEPT !.val = <<>>], "tag")
        a == IF version = 3 THEN Take(t, "u8") ELSE [t EXCEPT !.val = Append(@, 1)]
        end == TakeIds(Take(a, "u64"))
        v == end.val
    IN IF end.ok
       THEN [end EXCEPT !.val = Append(st.val, [tag |-> v[1], algo |-> v[2], canon |-> v[3], ids |-> v[4]])]
       ELSE [st EXCEPT !.ok = FALSE]

TakeGroup(st) ==
    LET end == TakeIds(Take([st EXCEPT !.val = <<>>], "u32"))
    IN IF end.ok
       THEN [end EXCEPT !.val = Append(st.val, [cond |-> end.val[1], sources |-> end.val[2]])]
       ELSE [st EXCEPT !.ok = FALSE]

RECURSIVE ReadPoints(_, _, _)
ReadPoints(st, version, n) ==
    IF ~st.ok \/ n = 0 THEN st ELSE ReadPoints(TakePoint(st, version), version, n - 1)

RECURSIVE ReadGroups(_, _)
ReadGroups(st, n) == IF ~st.ok \/ n = 0 THEN st ELSE ReadGroups(TakeGroup(st), n - 1)

(* Seed2Input::fill: what can be read of the stored body. An inflate stream    *)
(* without its end mark, or with bytes after it, is corrupt.                  *)
Inflated(file) ==
    LET n == Len(file.body)
    IN IF file.header.codec # "zlib" THEN [ok |-> TRUE, in |-> file.body]
       ELSE [ok |-> n > 0 /\ \A i \in 1..n : (file.body[i].k = "end") <=> i = n,
             in |-> SubSeq(file.body, 1, n - 1)]

(* mtSeed2Load: the header checks, the parse, finishPayload (only versions 2   *)
(* and 3 verify that everything was read and that the checksum agrees) and    *)
(* the range of every id.                                                     *)
HeaderOk(file) ==
    LET bound == IF file.header.version >= 2 THEN file.raw ELSE Len(file.body)
    IN /\ file.header.version >= 2 => file.comp = Len(file.body)
       /\ \A i \in 1..3 : file.header.counts[i] <= bound

FinishUnchecked(file, payload, rest) == file.header.version >= 2 => rest = <<>>

FinishPayload(file, payload, rest) ==
    file.header.version >= 2 => rest = <<>> /\ file.crc = payload

Load(file) ==
    LET h == file.header
        src == Inflated(file)
        names == TakeMany([in |-> src.in, ok |-> src.ok, val |-> <<>>], "str", h.counts[2])
        points == ReadPoints([names EXCEPT !.val = <<>>], h.version, h.counts[1])
        groups == ReadGroups([points EXCEPT !.val = <<>>], h.counts[3])
        inRange(ids) == \A i \in DOMAIN ids : ids[i] < h.counts[2]
        ok == /\ HeaderOk(file) /\ groups.ok
              /\ FinishPayload(file, src.in, groups.in)
              /\ \A i \in DOMAIN points.val : inRange(points.val[i].ids)
              /\ \A i \in DOMAIN groups.val : inRange(Append(groups.val[i].sources, groups.val[i].cond))
    IN [ok |-> ok, hash |-> h.hash, keys |-> IF ok THEN names.val[1] ELSE <<>>, points |-> points.val,
        groups |-> groups.val, cursor |-> 1]

(* mtSeed2TranscodeMain copies the payload of a file into a new frame: it      *)
(* checks the source like the reader does, and version 1 may not have bytes    *)
(* after its payload (there are none: the payload is the rest of the file).   *)
TranscodeOk(file) ==
    LET src == Inflated(file)
    IN HeaderOk(file) /\ src.ok /\ (file.header.version >= 2 => file.crc = src.in /\ file.raw = Len(src.in))

Transcode(file, codec) ==
    LET version == IF file.header.version = 3 THEN 3 ELSE 2
        payload == Inflated(file).in
    IN File([file.header EXCEPT !.version = version, !.codec = codec],
            Meta(payload, codec), Body(payload, codec))

-----------------------------------------------------------------------------
CanonUnchecked(p, g, verify) == TRUE

CanonAccepted(p, g, verify) == verify => p.canon = CanonInputHash(g, p.algo)

(* mtSeed2ApplyPoint: the next point must be this one, describe this graph     *)
(* (unless GSIM_SEED2_VERIFY_CANON=0) and name exactly its super nodes; then   *)
(* sortedSuper takes the recorded order. Super nodes with equal keys are taken *)
(* in the order they are in.                                                  *)
PointKeys(r, p) == [i \in DOMAIN p.ids |-> r.keys[p.ids[i] + 1]]

PointAccepted(r, tag, g, verify) ==
    /\ r.cursor <= Len(r.points)
    /\ LET p == r.points[r.cursor]
           keys == PointKeys(r, p)
           count(seq, k) == Cardinality({i \in DOMAIN seq : seq[i] = k})
           own == [i \in DOMAIN g.sorted |-> NodeKey(g, g.sorted[i])]
       IN /\ p.tag = tag
          /\ CanonAccepted(p, g, verify)
          /\ Len(keys) = Len(own)
          /\ \A k \in ToSet(keys) : count(keys, k) <= count(own, k)

ForcedOrderKept(r, g) == g.sorted

ForcedOrder(r, g) ==
    LET keys == PointKeys(r, r.points[r.cursor])
        before(i) == Cardinality({j \in 1..(i - 1) : keys[j] = keys[i]})
        with(k) == SelectSeq(g.sorted, LAMBDA s : NodeKey(g, s) = k)
    IN [i \in DOMAIN keys |-> with(keys[i])[before(i) + 1]]

(* The recorded `when` groups as super nodes of this graph.                   *)
GroupKeys(r, i) ==
    LET x == r.groups[i] IN [j \in DOMAIN x.sources |-> r.keys[x.sources[j] + 1]]

ByFullKey(g, key) == {s \in Live(g) : g.type[s] = "valid" /\ <<1, FullKey(g, s)>> = key}

GroupsFound(r, g) ==
    \A i \in DOMAIN r.groups : r.groups[i].sources # <<>>
        /\ \A j \in DOMAIN r.groups[i].sources : ByFullKey(g, GroupKeys(r, i)[j]) # {}

ReplayGroups(r, g) ==
    [i \in DOMAIN r.groups |->
        [j \in DOMAIN r.groups[i].sources |-> CHOOSE s \in ByFullKey(g, GroupKeys(r, i)[j]) : TRUE]]

-----------------------------------------------------------------------------
(* The text format: mtSeedWrite, mtSeedLoad and mtSeedVerifyInputHash.         *)
TextSeed(g, hash) ==
    [hash |-> hash, count |-> Len(g.sorted),
     rank |-> [i \in DOMAIN SelectSeq(g.sorted, LAMBDA s : g.mem[s] # <<>>) |->
                  g.mem[SelectSeq(g.sorted, LAMBDA s : g.mem[s] # <<>>)[i]][1]]]

(* What mtSeedLoad finds in a file whose last lines are gone: five lines of      *)
(* header, input_hash the second and node_count the third, then the names.      *)
TextHeader == 5
TextLoad(seed, lost) ==
    LET left == TextHeader + Len(seed.rank) - lost
    IN [hash |-> IF left >= 2 THEN seed.hash ELSE <<>>,
        count |-> IF left >= 3 THEN seed.count ELSE -1,
        rank |-> SubSeq(seed.rank, 1, left - TextHeader)]

(* A file without a node_count is taken as it is.                              *)
TextSeedOk(seed, hash) ==
    (seed.count < 0 \/ seed.count = Len(seed.rank)) /\ seed.hash = hash
=============================================================================
