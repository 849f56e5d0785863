----------------------------- MODULE CommandLine -----------------------------
(***************************************************************************)
(* The command lines of the network programs.  Three loops read one:       *)
(* parse_arg() of the pool server, the start of main() in the pool client, *)
(* and, without checks of the values, the one that the echo programs and   *)
(* ex19/p1 share.                                                          *)
(*                                                                         *)
(* Words are named by what they say.  The system is asked for its          *)
(* interfaces anew for every -i, and may fail to tell them.                *)
(***************************************************************************)
EXTENDS Integers, SequencesExt

CONSTANT MaxWords

LineAssumption == MaxWords \in Nat

VARIABLES
  prog,    \* "server", "client" or "echo"
  argv,    \* the words after the name of the program
  k,       \* the word that is read next
  port, addr, ifname, \* what has been read
  outcome  \* "reading"; then "run" or "end"

vars == <<prog, argv, k, port, addr, ifname, outcome>>
line == <<prog, argv>>
settings == <<port, addr, ifname>>

Options == {"-a", "-p", "-i", "-h"}
Word == Options \cup {"10.0.0.1", "65536", "65537", "eth0"}

(* What strtol() makes of a word: a number as far as it goes.               *)
Number == [w \in Word |->
  CASE w = "10.0.0.1" -> 10 [] w = "65536" -> 65536 [] w = "65537" -> 65537
    [] OTHER -> 0]

(* A port has 16 bits.                                                      *)
Width == 65536
PortNumber == 0..(Width - 1)
PortOf(w) == Number[w] % Width

(* Four numbers up to 255, the last one up to 254.                          *)
invalid_addr(w) == w # "10.0.0.1"

Addresses == {w \in Word : ~invalid_addr(w)}
Ports == {w \in Word : PortOf(w) # 0}
Interfaces == {"eth0"}
None == "none"

(* The word after the option.                                               *)
HasValue == k + 1 <= Len(argv)
Value == argv[k + 1]
Option(o) == outcome = "reading" /\ k <= Len(argv) /\ argv[k] = o

Ends(how) == outcome' = how /\ UNCHANGED <<line, k, settings>>
Reads == k' = k + 2 /\ UNCHANGED <<line, outcome>>

-----------------------------------------------------------------------------
(* A value that is not accepted ends the programs that check it; where it   *)
(* is missing the echo programs crash, which ends them too.                 *)
Takes(good) == HasValue /\ (prog = "echo" \/ Value \in good)

Address ==
  /\ Option("-a")
  /\ \/ Takes(Addresses) /\ addr' = Value /\ UNCHANGED <<port, ifname>> /\ Reads
     \/ ~Takes(Addresses) /\ Ends("end")

Port ==
  /\ Option("-p")
  /\ \/ Takes(Ports) /\ port' = PortOf(Value) /\ UNCHANGED <<addr, ifname>> /\ Reads
     \/ /\ ~Takes(Ports)
        /\ port' = IF HasValue THEN 0 ELSE port
        /\ outcome' = "end" /\ UNCHANGED <<line, k, addr, ifname>>

Iface ==
  /\ Option("-i")
  /\ \/ Takes(Interfaces) /\ ifname' = Value /\ UNCHANGED <<port, addr>> /\ Reads
     \/ ~Takes(Interfaces) /\ Ends("end")

(* Mutant: an interface that could not be looked up is passed over. *)
IfaceUnknown_Passed ==
  /\ Option("-i") /\ prog # "echo" /\ HasValue
  /\ Reads /\ UNCHANGED settings

(* invalid_iface() has returned -2: the same words are read once more.      *)
IfaceUnknown ==
  /\ Option("-i") /\ prog # "echo" /\ HasValue
  /\ UNCHANGED vars

(* The pool server shows its usage and runs all the same.                   *)
Help ==
  /\ Option("-h")
  /\ Ends(IF prog = "server" THEN "run" ELSE "end")

Other ==
  /\ outcome = "reading" /\ k <= Len(argv) /\ argv[k] \notin Options
  /\ Ends("end")

AllRead ==
  /\ outcome = "reading" /\ k > Len(argv)
  /\ Ends(IF argv = <<>> THEN "end" ELSE "run")

(* The echo servers and that of ex19/p1 give their port no value.           *)
Unset == IF prog = "echo" THEN {0, 1000} ELSE {0}

Init ==
  /\ prog \in {"server", "client", "echo"}
  /\ argv \in SeqOf(Word, MaxWords)
  /\ k = 1 /\ port \in Unset /\ addr = None /\ ifname = None
  /\ outcome = "reading"

Next == Address \/ Port \/ Iface \/ IfaceUnknown \/ Help \/ Other \/ AllRead

Spec == Init /\ [][Next]_vars

-----------------------------------------------------------------------------
(* Properties.                                                              *)

(* What a user may write: pairs of an option and a value it accepts.        *)
Accepts(o, w) ==
  \/ prog = "echo" /\ o \in {"-a", "-p", "-i"}
  \/ o = "-a" /\ w = "10.0.0.1"
  \/ o = "-p" /\ PortOf(w) \in PortNumber \ {0}
  \/ o = "-i" /\ w \in Interfaces

PairAt(i) == i + 1 <= Len(argv) /\ Accepts(argv[i], argv[i + 1])
Starts == {i \in 1..(Len(argv) + 1) : i % 2 = 1}

(* The first place where no pair stands.                                    *)
Stop == CHOOSE i \in Starts :
  ~PairAt(i) /\ \A j \in Starts : j < i => PairAt(j)

LastValue(o, default, Read(_)) ==
  LET given == {i \in Starts : i < Stop /\ argv[i] = o} IN
  IF given = {} THEN default ELSE Read(argv[Max(given) + 1])

(* A program that runs has been given pairs only, or it is the server and   *)
(* asked for help after them; its port, which has 16 bits, its address and  *)
(* its interface are those named last, however often the interfaces could   *)
(* not be told meanwhile.  Every other line ends it.                        *)
LineObeyed ==
  /\ outcome # "reading" =>
       (outcome = "run" <=>
          \/ argv # <<>> /\ Stop > Len(argv)
          \/ prog = "server" /\ Stop <= Len(argv) /\ argv[Stop] = "-h")
  /\ outcome = "run" =>
       /\ \E p \in Unset : port = LastValue("-p", p, PortOf)
       /\ addr = LastValue("-a", None, LAMBDA w : w)
       /\ ifname = LastValue("-i", None, LAMBDA w : w)
       /\ port \in PortNumber

=============================================================================
