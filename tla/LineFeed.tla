------------------------------ MODULE LineFeed ------------------------------
(***************************************************************************)
(* What a Tailer promises its caller about a file that is appended to and, *)
(* now and then, replaced: a feed of the lines of the present file.        *)
(* "mark" is how far the feed has come, "start" where it began (0 for a    *)
(* caller that wants the whole file, and after a replacement).             *)
(* A line is the pair of the newlines (or 0) around it.  When the mark     *)
(* passes the end of a line, the line is fed at that moment or never, and  *)
(* "never" is only for a line longer than MaxLength and for the line the   *)
(* feed began in.                                                          *)
(***************************************************************************)
EXTENDS Integers

CONSTANTS MaxLength, MaxSize

VARIABLES ends, fed, mark, start

feedVars == <<ends, fed, mark, start>>

Lines(es) ==
  {p \in ({0} \cup es) \X es : /\ p[1] < p[2]
                              /\ \A n \in es : n <= p[1] \/ p[2] <= n}

Exempt(p) == p[2] - p[1] - 1 > MaxLength \/ (start > 0 /\ p[1] <= start)

Init == /\ ends \in SUBSET (1 .. MaxSize)
        /\ fed = {}
        /\ mark = 0
        /\ start = 0

\* The writer completes lines, each after every line there is.
Write == /\ \E es \in SUBSET (1 .. MaxSize) :
              /\ \A a \in ends, b \in es : a < b
              /\ ends' = ends \cup es
         /\ UNCHANGED <<fed, mark, start>>

\* Another file takes the place of the one fed: the feed starts over.
Replace == /\ ends' \in SUBSET (1 .. MaxSize)
           /\ fed' = {} /\ mark' = 0 /\ start' = 0

\* The caller begins, or begins again, somewhere in the file.
Begin == /\ mark' \in 0 .. MaxSize
         /\ start' = mark'
         /\ fed' = {}
         /\ UNCHANGED ends

Feed == /\ mark' \in mark .. MaxSize
        /\ fed \subseteq fed'
        /\ \A p \in fed' \ fed : p \in Lines(ends) /\ mark <= p[1] /\ p[2] <= mark'
        /\ \A p \in Lines(ends) : mark < p[2] /\ p[2] <= mark' => p \in fed' \/ Exempt(p)
        /\ UNCHANGED <<ends, start>>

Spec == Init /\ [][Write \/ Replace \/ Begin \/ Feed]_feedVars
=============================================================================
