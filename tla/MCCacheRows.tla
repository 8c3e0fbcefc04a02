----------------------------- MODULE MCCacheRows -----------------------------
(***************************************************************************)
(* CacheRows with many cores to probe, many machines for the prefetch      *)
(* probe or many hosts for the streams, and one of the others.             *)
(*                                                                         *)
(* The cores: L1 caches from direct mapped to 47 ways, with ways of 4 to   *)
(* 64 KiB and lines of 64 and 128 bytes, behind each kind of prefetcher    *)
(* and with collisions in no, one or all placements; L2 caches whose       *)
(* transition lies inside and past the huge-page TLB and kMaxLines; and    *)
(* the interfaces that may be missing (a flush, huge pages, memory, a      *)
(* reported line).  A core with more than Collision - 1 lines to an eighth *)
(* of its L1 sets has no collisions: it would upset the control ring of    *)
(* probe_l1_line_from_sets too.                                            *)
(*                                                                         *)
(* The streams: up to three cores with the same or different L2 caches,    *)
(* sizes in units of 1/8 MiB: L2 of none, 1 and 2.5 MiB, L3 from smaller   *)
(* than an L2 to 96 MiB and past a quarter of the largest number, requests *)
(* on both sides of the largest that fits.                                 *)
(*                                                                         *)
(* Other systems list the caches in another order, list an L4, or are      *)
(* Windows or macOS.                                                       *)
(*                                                                         *)
(* The prefetch probe: working sets of up to 160 lines; machines with no   *)
(* prefetcher, one that follows short strides, one that follows all, a     *)
(* spatial one and one with a page stride; from one to sixteen misses in   *)
(* flight; L2 and last levels that leave a working set or none, and free   *)
(* memory that halves the memory's once or drops it.                       *)
(***************************************************************************)
EXTENDS CacheRows

Cache(l, type, bytes) == [level |-> l, type |-> type, bytes |-> bytes]

NoNames == [l \in 1..3 |-> 0]

Linux(l2s, l3) ==
    [interface |-> "sysfs", hw |-> NoNames, perf |-> << >>,
     caches |-> [c \in DOMAIN l2s |-> <<Cache(1, "data", 1), Cache(1, "instruction", 30),
                                        Cache(2, "unified", l2s[c]), Cache(3, "unified", l3)>>]]
Mac(hw, perf, n) ==
    [interface |-> "sysctl", hw |-> hw, perf |-> perf, caches |-> [c \in 1..n |-> << >>]]

\* Lists in another order, with an L4, of Windows; Apple cores of one kind and of
\* two, an Intel Mac, and nothing at all.
OtherSystems ==
    {[Linux(<<8, 8>>, 0) EXCEPT !.interface = i, !.caches[1] = list] :
        i \in {"sysfs", "windows"},
        list \in {<<Cache(3, "unified", 256), Cache(2, "unified", 8), Cache(1, "data", 1)>>,
                  <<Cache(3, "unified", 16), Cache(3, "unified", 128), Cache(2, "unified", 20),
                    Cache(2, "instruction", 30)>>}}
    \cup {[Linux(<<8>>, 0) EXCEPT !.caches[1] =
              <<Cache(4, "unified", 1024), Cache(3, "unified", 256), Cache(2, "unified", 8)>>]}
    \cup {Mac(<<0, 32, 0>>, <<<<1, 128, 0>>, <<1, 32, 0>>>>, n) : n \in 1..2}
    \cup {Mac(<<0, 2, 64>>, << >>, 1), Mac(<<0, 2, 256>>, <<<<0, 2, 256>>>>, 2),
          [Mac(NoNames, << >>, 2) EXCEPT !.interface = "none"]}

MCSystems == {Linux(l2s, l3) : l2s \in UNION {[1..n -> {0, 8, 20}] : n \in 1..3},
                               l3 \in {0, 16, 24, 256, 768, 5000}} \cup OtherSystems
MCMeasured == {0, 12, 128}
MCBudgets  == {0, 601, 1024, 12000}
MCRequests == {0, 4, 2047, 2049}
MCBlock == [k \in {"read"} \cup Stores |-> IF k = "partial" THEN 1 ELSE 2]

MCStrides == <<1, 2, 3, 4, 6, 8>>
MCSegments == <<2, 4, 8>>
MCDistances == <<0, 1, 2, 4, 8>>

\* Shares of strides 1, 2, 3, 4, 6, 8.
Share(a, b, c, d, e, f) == (1 :> a) @@ (2 :> b) @@ (3 :> c) @@ (4 :> d) @@ (6 :> e) @@ (8 :> f)
Shares == {Share(20, 20, 20, 20, 20, 20), Share(20, 20, 30, 100, 20, 20),
           Share(20, 20, 70, 70, 70, 70), Share(70, 70, 70, 100, 100, 100),
           Share(90, 90, 90, 90, 90, 90), Share(100, 100, 100, 100, 100, 100)}

Typical == [levels |-> TRUE, maps |-> TRUE, l1 |-> 16, l2 |-> 40, deepest |-> 40, available |-> 0,
            share |-> Share(20, 20, 30, 100, 20, 20), slow |-> <<20, 100>>,
            fast |-> <<4, 4, 20>>, room |-> 6]
Small == [Typical EXCEPT !.levels = FALSE]

MCMachines ==
    {[Typical EXCEPT !.share = s] : s \in Shares}
    \cup {[Typical EXCEPT !.room = r, !.fast = <<16, 4, 30>>] : r \in {1, 3, 16}}
    \cup {[Typical EXCEPT !.l2 = l2, !.deepest = d, !.available = a] :
             l2 \in {0, 28, 40}, d \in {0, 26}, a \in {0, 200, 280, 400}}
    \cup {Small, [Typical EXCEPT !.maps = FALSE]}

Xeon == [ways |-> 8, way |-> 4096, line |-> 64, collide |-> {}, prefetch |-> {"next"},
          l2ways |-> 12, l2line |-> 64, tlb |-> 1024, hugePages |-> TRUE, memory |-> TRUE,
          flush |-> TRUE, miss |-> 90, curve |-> 32, lastLevel |-> 32,
          reportedLine |-> 64, fallbackLine |-> 64]

Unmapped == [Xeon EXCEPT !.memory = FALSE]

L1s == {<<1, 32768, 64>>, <<2, 32768, 64>>, <<4, 16384, 64>>, <<8, 4096, 64>>,
        <<8, 16384, 128>>, <<12, 4096, 64>>, <<24, 65536, 128>>, <<47, 8192, 64>>}

WithL1(g) == [Xeon EXCEPT !.ways = g[1], !.way = g[2], !.line = g[3],
                           !.l2ways = g[1] + 8, !.reportedLine = 0]

MCProbed ==
    {WithL1(g) : g \in L1s}
    \cup {[WithL1(g) EXCEPT !.collide = c] :
              g \in {h \in L1s : h[1] \in 2..8}, c \in {{1}, {2, 3, 4}, {1, 2, 3, 4}}}
    \cup {[Xeon EXCEPT !.prefetch = p, !.miss = m, !.flush = f, !.curve = c,
                        !.reportedLine = r] :
              p \in SUBSET {"next", "last"}, m \in {41, 90}, f \in BOOLEAN, c \in {0, 2, 32},
              r \in {0, 64}}
    \cup {[Xeon EXCEPT !.lastLevel = 96, !.flush = FALSE, !.curve = c] : c \in {2, 32, 96}}
    \cup {[Xeon EXCEPT !.l2ways = w, !.tlb = t, !.l2line = l] :
              w \in {10, 16, 31, 46, 1000}, t \in {32, 1024}, l \in {64, 128}}
    \cup {[Xeon EXCEPT !.hugePages = FALSE], Unmapped}

\* Where the load category is not looked at.
NoLoad == [os |-> [Mac(NoNames, << >>, 1) EXCEPT !.interface = "none"],
           l1 |-> 1, l2 |-> 2, curve |-> <<0, 0>>]

\* Two levels in units of 512 bytes, all, one or none of which the system lists,
\* and a curve without an answer, right, or a point of its grid off; and an
\* efficiency core, of which macOS reports the caches of a performance core.
MCLoaded ==
    LET given(s) == {<<0, 0>>, s, <<s[1], 0>>, <<0, s[2]>>}
        curves(s) == given(s) \cup {<<(5 * s[1]) \div 4, (4 * s[2]) \div 5>>,
                                    <<(4 * s[1]) \div 5, (5 * s[2]) \div 4>>}
        lists(g) == [Linux(<<0>>, 0) EXCEPT !.caches[1] =
                        <<Cache(2, "unified", g[2]), Cache(1, "data", g[1]),
                          Cache(1, "instruction", 4096)>>]
    IN  UNION {{[os |-> lists(g), l1 |-> s[1], l2 |-> s[2], curve |-> c] :
                    g \in given(s), c \in curves(s)} :
               s \in {<<64, 1024>>, <<128, 256>>, <<96, 4096>>}}
        \cup {[os |-> Mac(<<0, 8192, 0>>, <<<<256, 32768, 0>>, <<128, 8192, 0>>>>, 1),
               l1 |-> 128, l2 |-> 8192, curve |-> <<0, 0>>], NoLoad}

Plain == [os |-> Linux(<<8>>, 256), measured |-> 128, budget |-> 0]

MCBeside(c, m, t, l) ==
    /\ c = Unmapped \/ m = Small
    /\ \/ "load" \notin t /\ l = NoLoad
       \/ "load" \in t /\ l # NoLoad /\ c = Unmapped /\ m = Small

MCTogether(c, m, h, a, l) ==
    \/ a = [table |-> TRUE, mib |-> 0] /\ h = Plain
    \/ c = Unmapped /\ m = Small /\ l = NoLoad
=============================================================================
