----------------------------- MODULE MC_GuestNic -----------------------------
(***************************************************************************)
(* Two nodes: a client on the one, and on the other a server and a process *)
(* that shares its NIC.                                                    *)
(***************************************************************************)
EXTENDS GuestNic

CONSTANTS client, server, local, n0, n1

MCHome == [p \in Proc |-> IF p = client THEN n1 ELSE n0]
Ids == [p \in Proc |-> IF p = local THEN 2 ELSE 1]

\* Both nodes' sequences start alike, or the server has registered dummies so
\* that its token is not one of the client's node.
MCToken0 == {[n \in Node |-> 1], [n \in Node |-> IF n = n1 THEN 1 ELSE 4]}

\* The segments are all of memory and one page that is not mapped; a buffer at
\* 12 is outside of them.
Reg == [call |-> "reg", va |-> 1, len |-> 11]
Recv(a) == [call |-> "recv", va |-> a, uctx |-> a]
Work(op, to, lva, rva, len, val) ==
  [call |-> "wr", op |-> op, to |-> to, lva |-> lva, rva |-> rva, len |-> len, val |-> val,
   cmp |-> 0, uctx |-> val]

\* What the client may send in second place: a write whose last page is not
\* mapped at the server, and the two that send nothing: too big, or from a
\* buffer that is not readable.
Send(i) == Work("SEND", server, 1, 0, 1, i)
WriteImm(i) == Work("WRITE_IMM", server, 1, i, 1, i)
Half == Work("WRITE_IMM", server, 1, 10, 2, 2)
Second == {Half, Work("SEND", server, 1, 0, 3, 2), Work("WRITE", server, 12, 2, 1, 2)}
\* The local process: a send and a write that may or may not meet a receive the
\* client's send is for; atomics and a read that work and fail, and a write that
\* fails half way.
LocalSends ==
  {Work("SEND_IMM", server, 1, 0, 1, 7), Work("WRITE_IMM", server, 1, 9, 1, 6)}
LocalReqs ==
  {<<Work("FADD", server, 1, 8, 1, 1)>>, <<Work("FADD", server, 12, 8, 1, 1), Work("READ", server, 2, 8, 1, 0)>>,
   <<Work("WRITE", server, 1, 10, 2, 6), Work("CAS", server, 2, 10, 1, 6), Work("SWAP", server, 2, 10, 1, 6)>>}

Program(peer, c, s, l) ==
  [peer |-> peer, calls |-> [p \in Proc |-> CASE p = client -> c [] p = server -> s [] p = local -> l]]
Server == <<Reg, Recv(5), Work("FADD", server, 4, 8, 1, 1), Recv(6)>>
MCPrograms ==
  {Program(TRUE, <<Reg, Send(1), WriteImm(2), WriteImm(3), Send(4)>>, Server, << >>)}
  \cup {Program(TRUE, <<Reg, Send(1), r, WriteImm(3)>>, Server, << >>) : r \in Second}
  \cup {Program(TRUE, <<Reg, Send(1)>>, Server, <<Reg, r>>) : r \in LocalSends}
  \cup {Program(TRUE, << >>, Server, <<Reg>> \o r) : r \in LocalReqs}
  \cup {Program(FALSE, <<Reg, WriteImm(2)>>, <<Reg, Recv(5)>>, <<Reg, Send(1)>>)}
MCPkt ==
  {[op |-> "SEND", jetty |-> 1, tok |-> 0, va |-> 0, len |-> 1, val |-> i, from |-> client] : i \in 1 .. 4}
  \cup {[op |-> "WRITE_IMM", jetty |-> 1, tok |-> t, va |-> i, len |-> 1, val |-> i, from |-> client] :
          i \in 2 .. 3, t \in {2, 3, 5, 6}}
  \cup {[op |-> "WRITE_IMM", jetty |-> 1, tok |-> t, va |-> 10, len |-> 2, val |-> 2, from |-> client] :
          t \in {2, 3, 5, 6}}
  \cup {[op |-> "SEND_IMM", jetty |-> 1, tok |-> 0, va |-> 0, len |-> 1, val |-> 7, from |-> local]}

\* The condition under which receives are proved to complete in order.
ASSUME ReceivesNumbered == InPostOrder

\* One node, and more than one send that may come before its receive.
OnePrograms == {Program(FALSE, << >>, <<Reg, Recv(5), Recv(6)>>, <<Reg, Send(1), Send(2)>>)}
=============================================================================
