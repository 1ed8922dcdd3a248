------------------------------ MODULE Analyze ------------------------------
(***************************************************************************)
(* What the hub tells two nodes to do to reach each other                  *)
(* (pkg/nat/analyze.go): a pure function of what each has found out about  *)
(* its NAT.  Addresses are records [ip, port]; filter() makes them sets.   *)
(* Waits and TTLs of an action are left out: ModifyTTL restores the TTL    *)
(* when it returns, before anything is sent (pkg/network/tools.go:19), so  *)
(* that LowTTL has no effect.                                              *)
(***************************************************************************)
EXTENDS Naturals

CONSTANTS ManyLocal,   \* sockets an end behind a hard NAT opens (256)
          ManyRemote,  \* ports guessed of such an end (1024)
          LowPort,     \* where the guesses start (10000)
          HighPort     \* and the port before which they end (65000)

ASSUME Ports == {ManyLocal, ManyRemote, LowPort, HighPort} \subseteq Nat

isRandomPort(d) == d.primary.port # d.secondary.port
isMultiExternIP(d) == d.primary.ip # d.secondary.ip
Hard(d) == isRandomPort(d) \/ isMultiExternIP(d)

Lesser(m, n) == IF m <= n THEN m ELSE n
Greater(m, n) == IF m <= n THEN n ELSE m

Mapped(d) == {d.primary, d.secondary}

Action(try, repeat) == [try |-> try, repeat |-> repeat]
ClientActions == <<Action(FALSE, FALSE), Action(TRUE, TRUE)>>
ServerActions == <<Action(TRUE, FALSE), Action(TRUE, TRUE)>>

(* own: the result of the end the plan is for. *)
Plan(own, remotes, role, locals, guesses, from, to, actions) ==
    [local |-> own.local, remotes |-> remotes, role |-> role, locals |-> locals,
     guesses |-> guesses, from |-> from, to |-> to, actions |-> actions]

(* portsDistance, widened to the usual range *)
From(d) == Lesser(LowPort, Lesser(d.primary.port, d.secondary.port))
To(d) == Greater(HighPort, Greater(d.primary.port, d.secondary.port))

analyzeDoubleEasy(local, remote) ==
    <<Plan(local, Mapped(remote), "client", 1, 1, 0, 0, ClientActions),
      Plan(remote, Mapped(local), "server", 1, 1, 0, 0, ServerActions)>>

analyzeHasEasy(hard, easy) ==
    <<Plan(hard, Mapped(easy), "client", ManyLocal, 1, easy.primary.port, 0, ClientActions),
      Plan(easy, Mapped(hard), "server", 1, ManyRemote, From(hard), To(hard),
           ServerActions)>>

(* The addresses here include the one the socket is bound to, which is     *)
(* 0.0.0.0: see HolePunch.  Only the server's range takes observed ports   *)
(* into account.                                                           *)
analyzeDoubleHard(local, remote) ==
    <<Plan(local, Mapped(remote) \cup {remote.local}, "client", ManyLocal, ManyRemote,
           LowPort, HighPort, ServerActions),
      Plan(remote, Mapped(local) \cup {local.local}, "server", ManyLocal, ManyRemote,
           From(local), To(local), ServerActions)>>

Swap(plans) == <<plans[2], plans[1]>>

Analyze_NoDoubleEasy(local, remote) ==
    IF Hard(local)
    THEN IF Hard(remote) THEN analyzeDoubleHard(local, remote)
                         ELSE analyzeHasEasy(local, remote)
    ELSE Swap(analyzeHasEasy(remote, local))

Analyze(local, remote) ==
    IF Hard(local)
    THEN IF Hard(remote) THEN analyzeDoubleHard(local, remote)
                         ELSE analyzeHasEasy(local, remote)
    ELSE IF Hard(remote) THEN Swap(analyzeHasEasy(remote, local))
                         ELSE analyzeDoubleEasy(local, remote)
=============================================================================
