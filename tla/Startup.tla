------------------------------- MODULE Startup -------------------------------
(***************************************************************************)
(* Process start-up: main() of src/main.go and, in development mode, the  *)
(* stat server it starts on a goroutine (src/monoserver/stat/server.go).  *)
(*                                                                         *)
(* Two goroutines share the process: main parses the flags, picks a port  *)
(* with getFreePort, starts the stat server's goroutine, connects to the  *)
(* stat address and mounts; the stat server listens on the port, builds   *)
(* its credentials and serves.  log.Fatalf on either goroutine ends the   *)
(* whole process.  Another process on the host may bind a free port at    *)
(* any time.  Once mounted, the kernel sends StatFS, which the stat       *)
(* client forwards to the stat address.                                   *)
(*                                                                         *)
(* The stat client (src/monoclient), the worker and the FUSE mount are    *)
(* not under src/: their calls are steps that succeed or fail.  A remote  *)
(* stat server given by --statAddress is outside the process and answers. *)
(***************************************************************************)
EXTENDS Naturals

CONSTANTS
    Ports,      \* the host's TCP ports getFreePort may be given
    CertDirs    \* states of --cert_dir: "unset", "unreadable" (no
                \* ca-cert.pem), "badca" (a ca-cert.pem with no
                \* certificate), "badkey" (no usable server key), "ok"

\* The command line and the environment: --dev, a --mount_point, a
\* --statAddress, MONOFS_DEV_RUN, and --cert_dir.
Flags == [dev : BOOLEAN, mountPoint : BOOLEAN, statAddress : BOOLEAN,
          devRun : BOOLEAN, certDir : CertDirs]

VARIABLES
    flags,      \* the parsed flags, fixed at start
    address,    \* *fStatServerAddress: "flag", "local" (localhost:port) or "none"
    port,       \* the port getFreePort returned, 0 before
    mainPc,     \* where main is
    srvPc,      \* where the stat server's goroutine is, "none" before go
    ports,      \* port -> "free", "srv" (the stat server's listener) or "other"
    mounted,    \* worker.Start has mounted the file system
    proc,       \* "running" or "exited" (log.Fatalf, a panic, or main returning)
    statReq     \* the kernel's last StatFS: "none", "pending", "answered", "failed"

vars == <<flags, address, port, mainPc, srvPc, ports, mounted, proc, statReq>>

Init ==
    /\ flags \in Flags
    /\ address = IF flags.statAddress THEN "flag" ELSE "none"
    /\ port = 0
    /\ mainPc = "parse"
    /\ srvPc = "none"
    /\ ports = [p \in Ports |-> "free"]
    /\ mounted = FALSE
    /\ proc = "running"
    /\ statReq = "none"

Running == proc = "running"

\* log.Fatalf: the process exits; every goroutine stops with it.
Fatal ==
    /\ proc' = "exited"
    /\ UNCHANGED <<flags, address, port, mainPc, srvPc, ports, mounted, statReq>>

-----------------------------------------------------------------------------
(* main (main.go 66-142)                                                   *)

\* Lines 67-80: the zap logger, then --mount_point.  When NewProduction
\* fails, logger.Sugar() on the nil logger panics before the Fatalf: the
\* process dies either way.
MainParse ==
    /\ Running /\ mainPc = "parse"
    /\ \/ Fatal                                      \* zap fails
       \/ ~flags.mountPoint /\ Fatal
       \/ /\ flags.mountPoint
          /\ mainPc' = "address"
          /\ UNCHANGED <<flags, address, port, srvPc, ports, mounted, proc, statReq>>

\* getFreePort (51-64): listen on localhost:0, read the port, close the
\* listener before returning.  The port is free again when it returns.
getFreePort == {p \in Ports : ports[p] = "free"}

\* Lines 82-99: with no --statAddress, development mode takes a free port,
\* stores localhost:port and starts the stat server on a goroutine; outside
\* development mode it is fatal.
MainAddress ==
    /\ Running /\ mainPc = "address"
    /\ \/ /\ flags.statAddress
          /\ mainPc' = "connect"
          /\ UNCHANGED <<flags, address, port, srvPc, ports, mounted, proc, statReq>>
       \/ ~flags.statAddress /\ ~flags.dev /\ Fatal
       \/ ~flags.statAddress /\ flags.dev /\ getFreePort = {} /\ Fatal
       \/ /\ ~flags.statAddress /\ flags.dev
          /\ address' = "local"
          /\ port' \in getFreePort
          /\ mainPc' = "connect"
          /\ srvPc' = "listen"
          /\ UNCHANGED <<flags, ports, mounted, proc, statReq>>

\* Lines 100-113: the mount config, then monostat.NewConnection, which
\* fails or returns a client connection (gRPC dials lazily: no server is
\* needed yet).
MainConnect ==
    /\ Running /\ mainPc = "connect"
    /\ \/ Fatal
       \/ /\ mainPc' = "worker"
          /\ UNCHANGED <<flags, address, port, srvPc, ports, mounted, proc, statReq>>

\* Lines 115-140: worker.New and worker.Start, each fatal on error; Start
\* mounts the file system.
MainWorker ==
    /\ Running /\ mainPc = "worker"
    /\ \/ Fatal
       \/ /\ mainPc' = "wait"
          /\ mounted' = TRUE
          /\ UNCHANGED <<flags, address, port, srvPc, ports, proc, statReq>>

\* Line 141: worker.Wait returns once the file system is unmounted, and
\* main returns.
Unmount ==
    /\ Running /\ mainPc = "wait"
    /\ mainPc' = "done"
    /\ mounted' = FALSE
    /\ proc' = "exited"
    /\ UNCHANGED <<flags, address, port, srvPc, ports, statReq>>

-----------------------------------------------------------------------------
(* The stat server's goroutine: Server.Start (server.go 44-94), called at  *)
(* main.go 90-95, whose non-nil error is fatal                              *)

\* Lines 45-49: net.Listen on the port; an error is returned, and fatal.
SrvListen ==
    /\ Running /\ srvPc = "listen"
    /\ \/ ports[port] # "free" /\ Fatal
       \/ /\ ports[port] = "free"
          /\ ports' = [ports EXCEPT ![port] = "srv"]
          /\ srvPc' = "creds"
          /\ UNCHANGED <<flags, address, port, mainPc, mounted, proc, statReq>>

\* Lines 51-83: insecure credentials under MONOFS_DEV_RUN; otherwise the
\* TLS files of --cert_dir.  An empty cert dir, an unreadable CA file or a
\* bad key pair returns an error.  When AppendCertsFromPEM finds no
\* certificate, line 67 returns err, which is the nil of the successful
\* ReadFile: Start returns nil, main.go 92 sees no error, and the goroutine
\* ends with the listener still open and nothing serving it.
SrvCreds ==
    /\ Running /\ srvPc = "creds"
    /\ \/ /\ flags.devRun \/ flags.certDir = "ok"
          /\ srvPc' = "serve"
          /\ UNCHANGED <<flags, address, port, mainPc, ports, mounted, proc, statReq>>
       \/ ~flags.devRun /\ flags.certDir \in {"unset", "unreadable", "badkey"} /\ Fatal
       \/ /\ ~flags.devRun /\ flags.certDir = "badca"
          /\ srvPc' = "returned"
          /\ UNCHANGED <<flags, address, port, mainPc, ports, mounted, proc, statReq>>

\* Lines 85-93: register the Stat service and Serve the listener.
SrvServe ==
    /\ Running /\ srvPc = "serve"
    /\ srvPc' = "serving"
    /\ UNCHANGED <<flags, address, port, mainPc, ports, mounted, proc, statReq>>

-----------------------------------------------------------------------------
(* The host and the kernel                                                 *)

\* Another process binds a free port.
OtherBind ==
    /\ \E p \in Ports :
          /\ ports[p] = "free"
          /\ ports' = [ports EXCEPT ![p] = "other"]
    /\ UNCHANGED <<flags, address, port, mainPc, srvPc, mounted, proc, statReq>>

\* The kernel sends StatFS to the mounted file system; the stat client
\* calls Stat at the stat address.
StatFS ==
    /\ Running /\ mounted /\ statReq # "pending"
    /\ statReq' = "pending"
    /\ UNCHANGED <<flags, address, port, mainPc, srvPc, ports, mounted, proc>>

\* Server.Stat (server.go 32-41) answers, on the local stat server's
\* listener once it serves; a remote stat server answers.
Stat ==
    /\ Running /\ statReq = "pending"
    /\ \/ address = "flag"
       \/ address = "local" /\ ports[port] = "srv" /\ srvPc = "serving"
    /\ statReq' = "answered"
    /\ UNCHANGED <<flags, address, port, mainPc, srvPc, ports, mounted, proc>>

\* The call fails (spec.md 6: RpcError) once the client gives up
\* connecting to a local port nothing serves: the kernel gets an error.
StatFails ==
    /\ Running /\ statReq = "pending"
    /\ address = "local" /\ ~(ports[port] = "srv" /\ srvPc = "serving")
    /\ statReq' = "failed"
    /\ UNCHANGED <<flags, address, port, mainPc, srvPc, ports, mounted, proc>>

Main == MainParse \/ MainAddress \/ MainConnect \/ MainWorker
Srv  == SrvListen \/ SrvCreds \/ SrvServe

Next == Main \/ Unmount \/ Srv \/ OtherBind \/ StatFS \/ Stat \/ StatFails

\* The Go scheduler runs both goroutines, and gRPC serves an accepted
\* call; the user's unmount, the kernel's StatFS and the other process
\* are not forced.
Spec == Init /\ [][Next]_vars /\ WF_vars(Main) /\ WF_vars(Srv) /\ WF_vars(Stat)

-----------------------------------------------------------------------------
(* Properties                                                              *)

TypeOK ==
    /\ flags \in Flags
    /\ address \in {"flag", "local", "none"}
    /\ port \in Ports \cup {0}
    /\ mainPc \in {"parse", "address", "connect", "worker", "wait", "done"}
    /\ srvPc \in {"none", "listen", "creds", "serve", "serving", "returned"}
    /\ ports \in [Ports -> {"free", "srv", "other"}]
    /\ mounted \in BOOLEAN
    /\ proc \in {"running", "exited"}
    /\ statReq \in {"none", "pending", "answered", "failed"}

\* The stat server main starts either serves or takes the process down:
\* main.go 92-94 makes every error of Server.Start fatal, and spec.md 6
\* asks for a non-zero exit on any fatal error during start-up, so no
\* mount outlives a stat server that will never serve its StatFS calls.
\* This is about the error paths of Server.Start (server.go 44-94).
StatServerStarts == srvPc = "listen" ~> (srvPc = "serving" \/ proc = "exited")

=============================================================================
