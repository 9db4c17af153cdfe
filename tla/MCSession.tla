------------------------------ MODULE MCSession ------------------------------
(* What a request goes through: the bridge that admits it, its mutexes, the *)
(* turn it runs, and the pipe that a search of this turn takes.  A          *)
(* behaviour starts in one part and stays there, while the others rest in   *)
(* their initial states.  Session has the turn and the mutexes; b1 .. b30   *)
(* are the variables of BridgeAdmission, p1 .. p12 those of IndexPipe.      *)
EXTENDS Session

VARIABLES part,      \* the component that runs
          b1, b2, b3, b4, b5, b6, b7, b8, b9, b10, b11, b12, b13, b14, b15,
          b16, b17, b18, b19, b20, b21, b22, b23, b24, b25, b26, b27, b28,
          b29, b30,
          p1, p2, p3, p4, p5, p6, p7, p8, p9, p10, p11, p12

bridge == <<b1, b2, b3, b4, b5, b6, b7, b8, b9, b10, b11, b12, b13, b14, b15,
            b16, b17, b18, b19, b20, b21, b22, b23, b24, b25, b26, b27, b28,
            b29, b30>>
pipe == <<p1, p2, p3, p4, p5, p6, p7, p8, p9, p10, p11, p12>>
all == <<part, vars, bridge, pipe, locks>>

Bridge == INSTANCE BridgeAdmission WITH
    Requests <- {"r"}, Sessions <- {"s"}, SessionOf <- [r \in {"r"} |-> "s"],
    NoRequest <- "none", NoConf <- <<"none", 0>>, SessionCap <- 2, MaxAsks <- 1,
    MaxTokens <- 1, MaxConfig <- 1, busy <- b1, cancelled <- b2,
    pending <- b3, answer <- b4, expired <- b5, active <- b6, pc <- b7,
    asks <- b8, verdict <- b9, maint <- b10, maintenance <- b11,
    registered <- b12, deleting <- b13, contexts <- b14,
    configuration <- b15, seen <- b16, config <- b17, durable <- b18,
    deletion <- b19, main <- b20, loaded <- b21, click <- b22, prep <- b23,
    res <- b24, token <- b25, tokens <- b26, local <- b27, consents <- b28,
    stopped <- b29, deleted <- b30

Pipe == INSTANCE IndexPipe WITH
    Slots <- {"i", "j"}, Searches <- {"s"}, Rebuilds <- {"r"}, Others <- {},
    MaxSearches <- 1, NoCall <- "none", NoAnswer <- [of |-> "none", what |-> "none"],
    inst <- p1, who <- p2, inbox <- p3, outbox <- p4, acked <- p5,
    serving <- p6, reply <- p7, step <- p8, got <- p9, active <- p10,
    taken <- p11, stop <- p12

AllInit ==
    /\ part \in {"bridge", "turn", "pipe", "locks"}
    /\ Init /\ Bridge!Init /\ Pipe!Init /\ Locks!Init
    /\ part # "turn" => desktop /\ shared
    /\ part # "bridge" => b18 = {}

AllNext ==
    \/ part = "bridge" /\ Bridge!Next /\ UNCHANGED <<part, vars, pipe, locks>>
    \/ part = "turn" /\ Next /\ UNCHANGED <<part, bridge, pipe, locks>>
    \/ part = "pipe" /\ Pipe!Next /\ UNCHANGED <<part, vars, bridge, locks>>
    \/ part = "locks" /\ Locks!Next /\ UNCHANGED <<part, vars, bridge, pipe>>

\* The fairness each component states for itself.
BridgeFair ==
    /\ WF_bridge(part = "bridge" /\ Bridge!Worker("r"))
    /\ \A c \in Bridge!Confs : WF_bridge(part = "bridge" /\ Bridge!Expire(c))
TurnFair ==
    /\ WF_vars(part = "turn" /\ Respond)
    /\ WF_vars(part = "turn" /\ Call)
    /\ WF_vars(part = "turn" /\ Decided)
PipeFair ==
    /\ WF_pipe(part = "pipe" /\ Pipe!Client("s"))
    /\ \A i \in {"i", "j"} : WF_pipe(part = "pipe" /\ Pipe!Listener(i))

AllSpec == AllInit /\ [][AllNext]_all /\ BridgeFair /\ TurnFair /\ PipeFair

\* BridgeAdmission: every request gives the admission back.
RequestsReturn == Bridge!RequestsReturn

\* TurnRuntime and IndexPipe: every turn of the desktop ends, and so does every
\* search and a worker that is stopped, whatever other clients do.
SessionsEnd == TurnsEnd /\ Pipe!CallsEnd
=============================================================================
