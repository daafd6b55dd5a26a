------------------------------ MODULE MCServers ------------------------------
(* The two servers with select(): a behaviour is a run of one of them.       *)
(*                                                                           *)
(* Three clients for two slots, so that one is refused or takes the slot of  *)
(* another that left, and a hole can be before the last.  04File_Server has  *)
(* one descriptor more than slots, which the first file that is opened       *)
(* takes.                                                                    *)
EXTENDS SelectServer

CONSTANTS File, MaxFd, MaxRequests

VARIABLES program,
          fcli_fds, fol_con, frd_set, fi, fserver, fconn, fbacklog, fclient,
          request, requests, funseen, fpeer

fileVars == <<fcli_fds, fol_con, frd_set, fi, fserver, fconn, fbacklog, fclient,
              request, requests, funseen, fpeer>>

FServer == INSTANCE FileServer WITH
               cli_fds <- fcli_fds, ol_con <- fol_con, rd_set <- frd_set, i <- fi,
               server <- fserver, conn <- fconn, backlog <- fbacklog, client <- fclient,
               unseen <- funseen, peer <- fpeer

MCInit == /\ program \in {"03Tcp_select_enhanced", "04File_Server"}
          /\ Init /\ FServer!Init

SelectStep == program = "03Tcp_select_enhanced" /\ UNCHANGED <<program, fileVars>>
FileStep == program = "04File_Server" /\ UNCHANGED <<program, vars>>

MCNext == \/ SelectStep /\ Next
          \/ FileStep /\ FServer!Next

MCVars == <<program, vars, fileVars>>

\* The fairness of the two modules, each for the runs of its program.
MCSpec == /\ MCInit /\ [][MCNext]_MCVars
          /\ WF_MCVars(SelectStep /\ Server) /\ WF_MCVars(FileStep /\ FServer!Server)

----------------------------------------------------------------------------

\* RequestsHandled of FileServer: a request is handled, unless for ever the client
\* is outside the scanned slots or the server waits for a client that does not
\* read, or accept() failed, or SIGPIPE ended the server.
RequestsHandled == FServer!RequestsHandled

=============================================================================
