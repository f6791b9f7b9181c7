------------------------------- MODULE MCAdjust -------------------------------
(***************************************************************************)
(* Pairs of a configuration and a running kernel module to adjust.         *)
(***************************************************************************)
EXTENDS Adjust

Disk(m, d, o, s) == [minor |-> m, disk |-> d, opts |-> o, size |-> s]

\* a volume as configured and as it runs; <<>>: not there
ConfVols(v) == {<<>>, Disk(v, None, Default, Default), Disk(v, 1, Default, Default)}
KernVols(v) == ConfVols(v) \union {Disk(v, 2, Default, Default), Disk(v, 1, "other", Default),
                                   Disk(v, 1, "no-bitmap", Default), Disk(v, 1, Default, "other")}

Present(f) == [x \in {y \in DOMAIN f : f[y] # <<>>} |-> f[x]]

\* A connection as it runs: what differs from the configuration, its state.
Conn(diff, cstate) ==
  [transport |-> IF diff = "transport" THEN "other" ELSE "tcp",
   net |-> IF diff = "net" THEN "other" ELSE Default,
   paths |-> CASE diff = "path" -> {2} [] diff = "more" -> {1, 2} [] diff = "both" -> {2, 3} [] OTHER -> {1},
   cstate |-> cstate]
ConfConn == [transport |-> "tcp", net |-> Default, paths |-> {1}]

Peered(conns, vols, opt) == [p \in DOMAIN conns |-> ("pd" :> [v \in vols |-> opt[p]]) @@ conns[p]]

Case(confVols, kernVols, confConns, kernConns, confPd, kernPd) ==
  LET cv == Present(confVols)
      kv == Present(kernVols)
  IN [conf |-> 1 :> [opts |-> Default, vols |-> cv,
                     conns |-> Peered(Present(confConns), DOMAIN cv, confPd)],
      kern |-> 1 :> [exists |-> TRUE, opts |-> Default, vols |-> kv,
                     conns |-> Peered(Present(kernConns), DOMAIN kv, kernPd)]]

OneVol == 1 :> Disk(1, 1, Default, Default)
Up == 1 :> Conn("none", "Connected")

DiskCases ==
  {Case((1 :> c1) @@ (2 :> c2), (1 :> k1) @@ (2 :> k2), 1 :> ConfConn, Up, 1 :> Default, 1 :> Default) :
     c1 \in ConfVols(1), c2 \in ConfVols(2), k1 \in KernVols(1), k2 \in KernVols(2)}

\* a peer: <<configured, running>>
Peers == {<<ConfConn, <<>>>>}
         \union {<<c, Conn(d, "Connected")>> : c \in {ConfConn}, d \in {"none", "net", "transport", "path", "more"}}
         \union {<<ConfConn, Conn("none", "StandAlone")>>, <<ConfConn, Conn("path", "Connecting")>>,
                 <<<<>>, Conn("none", "Connected")>>, <<<<>>, Conn("none", "Connecting")>>}

FewPeers == {<<ConfConn, <<>>>>, <<ConfConn, Conn("none", "Connected")>>,
             <<ConfConn, Conn("transport", "Connected")>>, <<<<>>, Conn("none", "Connected")>>}

NetCases ==
  {Case(OneVol, OneVol, 1 :> a[1] @@ 2 :> b[1] @@ 3 :> c[1], 1 :> a[2] @@ 2 :> b[2] @@ 3 :> c[2],
        1 :> "pd" @@ 2 :> Default @@ 3 :> "pd", 1 :> Default @@ 2 :> "pd" @@ 3 :> "pd") :
     a \in Peers, b \in FewPeers, c \in FewPeers}

\* A resource that does not run yet.
NewCases ==
  {[conf |-> c.conf, kern |-> 1 :> [exists |-> FALSE, opts |-> Default, vols |-> <<>>, conns |-> <<>>]] :
     c \in {Case((1 :> c1) @@ (2 :> c2), <<>>, 1 :> ConfConn @@ 2 :> ConfConn, <<>>,
                 1 :> "pd" @@ 2 :> Default, <<>>) : c1 \in ConfVols(1), c2 \in ConfVols(2)}}

\* A second volume and other resource options, while connections change;
\* pd: the peer device options configured for the first peer.
MixedCases(pd) ==
  {[c EXCEPT !.kern[1].opts = "other"] :
     c \in {Case((1 :> Disk(1, 1, Default, Default)) @@ (2 :> c2), (1 :> Disk(1, 1, Default, Default)) @@ (2 :> k2),
                 1 :> a[1] @@ 2 :> b[1], 1 :> a[2] @@ 2 :> b[2],
                 1 :> pd @@ 2 :> Default, 1 :> Default @@ 2 :> "pd") :
               a \in FewPeers, b \in FewPeers, c2 \in ConfVols(2), k2 \in ConfVols(2)}}

\* Two resources: the first one changes its disk and net options, the second
\* one connects again to n peers, one after the other.
TwoResources(n) ==
  LET peers == 1 .. n
      same == [p \in peers |-> ConfConn]
      none == [p \in peers |-> Default]
      one == Case(OneVol, 1 :> Disk(1, 2, Default, Default), same,
                  [p \in peers |-> Conn("net", "Connected")], none, none)
      two == Case(<<>>, <<>>, same, [p \in peers |-> Conn("path", "Connected")], none, none)
  IN {[conf |-> one.conf @@ 2 :> two.conf[1], kern |-> one.kern @@ 2 :> two.kern[1]]}

MinorCases ==
  {Case(OneVol, 1 :> Disk(2, 1, Default, Default), 1 :> ConfConn, Up, 1 :> Default, 1 :> Default)}

\* All of several paths are replaced, next to a second peer.
PathCases ==
  {Case(OneVol, OneVol, 1 :> ConfConn @@ 2 :> b[1], 1 :> Conn("both", cs) @@ 2 :> b[2],
        1 :> Default @@ 2 :> Default, 1 :> Default @@ 2 :> "pd") :
     b \in FewPeers, cs \in {"Connected", "StandAlone"}}

\* A new connection with two paths.
TwoPaths ==
  {Case(OneVol, OneVol, 1 :> [ConfConn EXCEPT !.paths = {1, 2}], <<>>, 1 :> Default, <<>>)}

AllCases == DiskCases \union NetCases \union NewCases \union MixedCases(Default)
            \union PathCases \union MinorCases \union TwoResources(2) \union TwoResources(3)
SecondResource == TwoResources(3)
LostOptions == MixedCases("pd")
=============================================================================
