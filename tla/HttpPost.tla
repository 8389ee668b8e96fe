------------------------------ MODULE HttpPost ------------------------------
(***************************************************************************)
(* Http_Post of firmware/app/src/app.c: one exchange with the tracking     *)
(* server, an action for each library call.  What counts is what the       *)
(* exchange holds (the socket fd, the block temp) and what each early      *)
(* return gives back; addresses and texts are left out.  The answer is     *)
(* received into a buffer of 1024 bytes (app.c:720), so no recv returns    *)
(* the 1352 bytes that would continue the loop with data.                  *)
(***************************************************************************)

VARIABLES hpc,      \* where the exchange is; "failed" and "done" when it returned
          fd,       \* is the socket open?
          temp      \* is the block of the request allocated?

httpVars == <<hpc, fd, temp>>

HttpPc == {"idle", "dns", "malloc", "socket", "connect", "send", "sendBody",
           "select", "recv", "closed", "failed", "done"}

HttpInit == hpc = "idle" /\ fd = FALSE /\ temp = FALSE

HttpStep(from, to) == hpc = from /\ hpc' = to

Http_Post == HttpStep("idle", "dns") /\ UNCHANGED <<fd, temp>>

DNS_GetHostByName2 ==
    /\ HttpStep("dns", "malloc") \/ HttpStep("dns", "failed")
    /\ UNCHANGED <<fd, temp>>

OS_Malloc ==
    /\ \/ HttpStep("malloc", "socket") /\ temp' = TRUE
       \/ HttpStep("malloc", "failed") /\ temp' = temp
    /\ fd' = fd

\* Mutant: the request's block is forgotten when there is no socket.
SocketForgetsBlock ==
    \/ HttpStep("socket", "connect") /\ fd' = TRUE /\ temp' = temp
    \/ HttpStep("socket", "failed") /\ UNCHANGED <<fd, temp>>

socket ==
    \/ HttpStep("socket", "connect") /\ fd' = TRUE /\ temp' = temp
    \/ HttpStep("socket", "failed") /\ temp' = FALSE /\ fd' = fd

\* A call on the open socket that goes well, or fails and ends the exchange.
OnSocket(from, to) ==
    \/ HttpStep(from, to) /\ UNCHANGED <<fd, temp>>
    \/ HttpStep(from, "failed") /\ fd' = FALSE /\ temp' = FALSE

connect  == OnSocket("connect", "send")
send     == OnSocket("send", "sendBody")
sendBody == OnSocket("sendBody", "select")

\* select returns because there is something to read, or with an error; the
\* error leaves the loop.
select == OnSocket("select", "recv")

\* Nothing came within the 12 seconds of timeout.
SelectTimeOut == HttpStep("select", "failed") /\ fd' = FALSE /\ temp' = FALSE

\* Data end the exchange with success, an error without it.
recv ==
    /\ HttpStep("recv", "done") \/ HttpStep("recv", "failed")
    /\ fd' = FALSE /\ temp' = FALSE

\* recv returns 0: the server has closed the connection.  The loop goes on; a
\* closed connection is always readable, and recv returns 0 again and again.
RecvZero == HttpStep("recv", "closed") /\ UNCHANGED <<fd, temp>>

\* An error is all that ends this loop.
ClosedError == HttpStep("closed", "failed") /\ fd' = FALSE /\ temp' = FALSE

\* A restart of the device.
HttpOff == hpc' = "idle" /\ fd' = FALSE /\ temp' = FALSE
=============================================================================
