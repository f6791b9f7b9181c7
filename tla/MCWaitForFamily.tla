---------------------------- MODULE MCWaitForFamily ----------------------------
EXTENDS WaitForFamily

First == <<1, 1, 1>>
Second == <<1, 2, 1>>
VolumeList == <<First, Second>>
PeerList == <<<<1, 1, 0>>, <<1, 2, 0>>>>
Volumes == {First, Second}
OtherVolumes == {<<2, 1, 1>>}

Cmd(kind, connect, sb) == [kind |-> kind, pd |-> Second, connect |-> connect, after_sb |-> sb]
Begin(c, first, second, alone, t1, t2) ==
  [cmd |-> c, standalone |-> alone,
   repl |-> [pd \in Volumes |-> IF pd = First THEN first ELSE second],
   type |-> [pd \in Volumes |-> IF pd = First THEN t1 ELSE t2]]

WaitBegins ==
  {Begin(Cmd("resource", TRUE, FALSE), Off, Resync, {}, "default", "default"),
   Begin(Cmd("resource", TRUE, FALSE), Off, Off, {}, "degraded", "outdated"),
   Begin(Cmd("resource", FALSE, TRUE), L_ESTABLISHED, Off, {Connection(Second)}, "default", "degraded"),
   Begin(Cmd("resource", TRUE, FALSE), Off, Gone, {}, "degraded", "default"),
   Begin(Cmd("connection", FALSE, FALSE), Off, Resync, {}, "outdated", "degraded"),
   Begin(Cmd("connection", TRUE, FALSE), Off, Off, {}, "default", "default"),
   Begin(Cmd("volume", TRUE, FALSE), L_ESTABLISHED, Off, {}, "outdated", "default")}

WaitTimeouts == {[wfc |-> 0, degr |-> 2, outdated |-> 1], [wfc |-> 2, degr |-> 2, outdated |-> 1]}

\* no --outdated-wfc-timeout: the one for degraded clusters is to be used
ImplicitTimeouts == {[wfc |-> 0, degr |-> 2, outdated |-> 0]}
=============================================================================
