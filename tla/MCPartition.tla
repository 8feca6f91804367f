----------------------------- MODULE MCPartition -----------------------------
(* Small circuits and environments for Partition.                             *)
EXTENDS Partition

Circuit(n, data, dep) ==
    [n |-> n, data |-> data, dep |-> dep, ext |-> {}, dead |-> {}, resets |-> {},
     cond |-> [x \in {} |-> 0], ops |-> [x \in 1..n |-> -1]]

Ascending(n) == {e \in (1..n) \X (1..n) : e[1] < e[2]}

(* Every graph on n nodes whose edges ascend, each pair unrelated, a read or a *)
(* mere dependence.                                                           *)
AllGraphs(n) ==
    {Circuit(n, {e \in DOMAIN f : f[e] = "data"}, {e \in DOMAIN f : f[e] = "dep"}) :
        f \in [Ascending(n) -> {"none", "data", "dep"}]}

Config(c) ==
    [circuit |-> c, again |-> c, format |-> "seed2", recordOrder |-> "id", replayOrder |-> "stable",
     line |-> [x \in 1..c.n |-> c.n - x], algo |-> 1, codec |-> "none", verify |-> TRUE,
     transcode |-> FALSE, fault |-> [kind |-> "none", at |-> 0],
     addr |-> [x \in 1..c.n |-> x], addrAgain |-> [x \in 1..c.n |-> x]]

Graphs4 == {Config(c) : c \in AllGraphs(4)}

(* Five nodes: 1 and 2 are conditions, 3 and 4 wait for 1, 5 for either.       *)
WhenCircuits ==
    {[Circuit(5, {<<1, 3>>, <<1, 4>>, <<w5, 5>>} \cup more, {}) EXCEPT
        !.cond = [x \in {3, 4, 5} |-> IF x = 5 THEN w5 ELSE 1]] :
        w5 \in {1, 2},
        more \in SUBSET {<<1, 2>>, <<2, 3>>, <<2, 4>>, <<3, 4>>, <<3, 5>>, <<4, 5>>}}

Whens == {[Config(c) EXCEPT !.recordOrder = o, !.replayOrder = p] :
             c \in WhenCircuits, o \in {"id", "stable"}, p \in {"id"}}

(* External modules that lost their nodes, synchronous and asynchronous resets, *)
(* nodes cheap enough to be copied.                                           *)
Shells ==
    {[Circuit(5, d, {}) EXCEPT !.ext = {2, 3}, !.dead = x,
        !.resets = {[reg |-> 5, sig |-> 1, async |-> a]}] :
        d \in {{<<1, 2>>, <<1, 3>>, <<4, 5>>}, {<<1, 4>>, <<4, 5>>, <<2, 5>>, <<3, 5>>}},
        x \in SUBSET {2, 3}, a \in BOOLEAN}

Copies ==
    {[Circuit(5, d \cup more, {}) EXCEPT
        !.ops = [x \in 1..5 |-> IF x \in k THEN x % 2 ELSE -1], !.ext = {4, 5}] :
        d \in {{<<3, 4>>, <<3, 5>>}, {<<2, 4>>, <<2, 5>>, <<3, 4>>}},
        more \in SUBSET {<<1, 2>>, <<1, 3>>, <<2, 3>>},
        k \in {{3}, {2, 3}}}

Special == {[Config(c) EXCEPT !.algo = a, !.verify = v, !.codec = "zlib"] :
               c \in Shells \cup Copies, a \in {1, 2}, v \in BOOLEAN}

(* One circuit with a group of `when`s, and everything that can happen to its  *)
(* file.                                                                      *)
Filed == [Circuit(4, {<<1, 2>>, <<1, 3>>}, {}) EXCEPT !.cond = [x \in {2, 3} |-> 1]]

FileFaults == [kind : {"crash", "truncate"}, at : 0..4 \cup {20, 60}] \cup [kind : {"flip"}, at : 1..75]

Files ==
    {[Config(Filed) EXCEPT !.codec = c, !.algo = a, !.fault = f, !.transcode = t, !.verify = v] :
        c \in {"none", "zlib"}, a \in {1, 2}, f \in FileFaults, t \in BOOLEAN, v \in BOOLEAN}
    \cup {[Config(Filed) EXCEPT !.codec = "v1", !.fault = f, !.transcode = t, !.verify = v] :
        f \in FileFaults, t \in BOOLEAN, v \in BOOLEAN}

Others == {[Config(c) EXCEPT !.again = d] : c \in AllGraphs(3), d \in AllGraphs(3)}

Texts == {[Config(c) EXCEPT !.format = "text", !.recordOrder = o, !.line = [x \in 1..c.n |-> x]] :
             c \in AllGraphs(3) \cup WhenCircuits, o \in {"id", "stable"}}

(* Text seeds that lost their last lines.                                     *)
TextFaults == {[Config(c) EXCEPT !.format = "text", !.line = [x \in 1..c.n |-> x],
                                 !.fault = [kind |-> "truncate", at |-> k]] :
                  c \in AllGraphs(3), k \in 1..8}

MCConfigs == Graphs4 \cup Whens \cup Special \cup Files \cup Others \cup Texts \cup TextFaults

(* A text seed of one circuit given to another one.                           *)
MCTextOther == {[Config(c) EXCEPT !.format = "text", !.again = d] : c \in AllGraphs(3), d \in AllGraphs(3)}
=============================================================================
