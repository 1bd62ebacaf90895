------------------------------- MODULE Address --------------------------------
(* Address.cpp: an IPv4 or IPv6 address with a port, its text, and the parser *)
(* of such texts.  A text is a sequence of characters.  A program makes an    *)
(* address in one of the ways the class has, changes it, prints it, and makes *)
(* another of what it printed.                                                *)
EXTENDS Integers, Sequences

CONSTANTS Hosts4, Hosts6,   \* the addresses made: 4 octets, 8 groups
          Ports,            \* the ports given to constructors and SetPort
          Texts             \* the texts given to the constructors that parse

Uint8  == {n \in Nat : n < 256}
Uint16 == {n \in Nat : n < 65536}
Truncate(n) == n % 65536

\* A sequence, of whatever characters.
IsText(t) == t \in Seq({t[i] : i \in DOMAIN t})

\* inet_ntop does not print it in the form of an IPv4 address.
Plain6(h) == (\E i \in 1 .. 5 : h[i] # 0) \/ (\A i \in 1 .. 7 : h[i] = 0)

ASSUME AddressAssumption ==
    /\ Hosts4 \subseteq [1 .. 4 -> Uint8] /\ Hosts6 \subseteq [1 .. 8 -> Uint16]
    /\ \A h \in Hosts6 : Plain6(h)
    /\ Ports \subseteq Int
    /\ \A t \in Texts : IsText(t)

VARIABLES address, \* the address the program works on
          printed, \* the address it printed last
          text,    \* what that printed
          copy,    \* the address made of that text
          read     \* whether it has been made

addressVars == <<address, printed, text, copy, read>>

Undefined == [type |-> "undefined", host |-> << >>, port |-> 0]
IPv4(h, p) == [type |-> "ipv4", host |-> h, port |-> p]
IPv6(h, p) == [type |-> "ipv6", host |-> h, port |-> p]

AddressTypeOK ==
    /\ \A a \in {address, printed, copy} :
          /\ a.type \in {"undefined", "ipv4", "ipv6"} /\ a.port \in Uint16
          /\ a.type = "ipv4" => a.host \in [1 .. 4 -> Uint8]
          /\ a.type = "ipv6" => a.host \in [1 .. 8 -> Uint16]
    /\ read \in BOOLEAN

-----------------------------------------------------------------------------
\* Texts and numbers: what printf, atoi, inet_ntop and inet_pton do with them.

Digit == <<"0", "1", "2", "3", "4", "5", "6", "7", "8", "9", "a", "b", "c", "d", "e", "f">>
Digits(base) == {Digit[i] : i \in 1 .. base}
Value(c) == (CHOOSE i \in DOMAIN Digit : Digit[i] = c) - 1

\* No number that is printed has more than five digits.
Place(base) == <<1, base, base * base, base * base * base, base * base * base * base>>
Numeral(n, base) ==
    LET size == CHOOSE k \in 1 .. 5 : /\ k = 1 \/ Place(base)[k] <= n
                                      /\ k = 5 \/ n < Place(base)[k + 1]
    IN [i \in 1 .. size |-> Digit[((n \div Place(base)[size + 1 - i]) % base) + 1]]

Number(t, base) ==
    LET value[n \in 0 .. Len(t)] == IF n = 0 THEN 0 ELSE value[n - 1] * base + Value(t[n])
    IN value[Len(t)]
AreDigits(t, base) == \A i \in 1 .. Len(t) : t[i] \in Digits(base)
IsNumeral(t, base, longest) == Len(t) \in 1 .. longest /\ AreDigits(t, base)

atoi(t) == LET most == CHOOSE n \in 0 .. Len(t) : /\ AreDigits(SubSeq(t, 1, n), 10)
                                                  /\ n = Len(t) \/ t[n + 1] \notin Digits(10)
           IN Number(SubSeq(t, 1, most), 10)

\* The pieces of t between one c and the next, and their inverse.
Grown(ps, x) == [ps EXCEPT ![Len(ps)] = Append(ps[Len(ps)], x)]
Pieces(t, c) ==
    LET pieces[n \in 0 .. Len(t)] ==
            IF n = 0 THEN << << >> >>
            ELSE IF t[n] = c THEN Append(pieces[n - 1], << >>) ELSE Grown(pieces[n - 1], t[n])
    IN pieces[Len(t)]
Delimited(ts, c) ==
    LET joined[n \in 0 .. Len(ts)] ==
            IF n = 0 THEN << >> ELSE IF n = 1 THEN ts[1] ELSE joined[n - 1] \o <<c>> \o ts[n]
    IN joined[Len(ts)]

ntop4(h) == Delimited([i \in 1 .. 4 |-> Numeral(h[i], 10)], ".")
pton4(t) ==
    LET ps == Pieces(t, ".")
        Octet(p) == IsNumeral(p, 10, 3) /\ Number(p, 10) < 256 /\ p = Numeral(Number(p, 10), 10)
    IN IF Len(ps) = 4 /\ \A i \in 1 .. 4 : Octet(ps[i])
       THEN [i \in 1 .. 4 |-> Number(ps[i], 10)] ELSE << >>

\* The longest run of zero groups, the first of them, becomes "::".
ntop6(h) ==
    LET groups == [i \in 1 .. 8 |-> Numeral(h[i], 16)]
        runs == {r \in (1 .. 8) \X (2 .. 8) : /\ r[1] + r[2] <= 9
                                              /\ \A i \in r[1] .. r[1] + r[2] - 1 : h[i] = 0}
        best == CHOOSE r \in runs : \A s \in runs : r[2] > s[2] \/ (r[2] = s[2] /\ r[1] <= s[1])
    IN IF runs = {} THEN Delimited(groups, ":")
       ELSE Delimited(SubSeq(groups, 1, best[1] - 1), ":") \o <<":", ":">>
            \o Delimited(SubSeq(groups, best[1] + best[2], 8), ":")

pton6(t) ==
    LET Groups(s) == IF s = << >> THEN << >> ELSE Pieces(s, ":")
        gaps  == {i \in 1 .. Len(t) - 1 : t[i] = ":" /\ t[i + 1] = ":"}
        gap   == CHOOSE i \in gaps : TRUE
        left  == Groups(IF gaps = {} THEN t ELSE SubSeq(t, 1, gap - 1))
        right == Groups(IF gaps = {} THEN << >> ELSE SubSeq(t, gap + 2, Len(t)))
        zeros == 8 - Len(left) - Len(right)
        all   == left \o [i \in 1 .. zeros |-> <<"0">>] \o right
    IN IF /\ \A i, j \in gaps : i = j
          /\ IF gaps = {} THEN zeros = 0 ELSE zeros >= 1
          /\ \A i \in 1 .. Len(all) : IsNumeral(all[i], 16, 4)
       THEN [i \in 1 .. 8 |-> Number(all[i], 16)] ELSE << >>

-----------------------------------------------------------------------------
\* Parse and ToString (here ToText, the library has a ToString).

\* Fault: the result of atoi is not converted
AsPortWide(t) == atoi(t)

AsPort(t) == Truncate(atoi(t))

\* Fault: ":65535" is taken for five characters
FiveLooks == 5

Looks == 6

\* The character at i, unless it is before first or behind the end that an earlier
\* ':' has made.  A ':' leaves i - cut characters.
Look(s, i, first, cut) ==
    IF i >= first /\ i <= Len(s.text) /\ s.text[i] = ":"
    THEN [port |-> AsPort(SubSeq(s.text, i + 1, Len(s.text))), text |-> SubSeq(s.text, 1, i - cut)]
    ELSE s

\* Both loops look at the last six characters, from the last on and through to the end.
Scan(t, port, first, cut) ==
    LET after[n \in 0 .. Looks] == IF n = 0 THEN [port |-> port, text |-> t]
                                  ELSE Look(after[n - 1], Len(t) + 1 - n, first, cut)
    IN after[Looks]

\* "[addr6]:port".  The index 3 of the code is the fourth character.
Unbracket(t) ==
    IF t # << >> /\ t[1] = "[" THEN LET s == Scan(t, 0, 4, 2) IN [port |-> s.port, text |-> Tail(s.text)]
    ELSE [port |-> 0, text |-> t]

Parse(t) ==
    LET six  == Unbracket(t)
        four == Scan(six.text, six.port, 1, 1)
    IN IF pton6(six.text) # << >> THEN IPv6(pton6(six.text), six.port)
       ELSE IF pton4(four.text) # << >> THEN IPv4(pton4(four.text), four.port)
       ELSE Undefined

ASSUME TextsAssumption == \A t \in Texts : Parse(t).type = "ipv6" => Plain6(Parse(t).host)

PortText(p) == IF p = 0 THEN << >> ELSE <<":">> \o Numeral(p, 10)

ToText(a) ==
    CASE a.type = "ipv4" -> ntop4(a.host) \o PortText(a.port)
      [] a.type = "ipv6" -> IF a.port = 0 THEN ntop6(a.host)
                            ELSE <<"[">> \o ntop6(a.host) \o <<"]">> \o PortText(a.port)
      [] OTHER -> <<"u", "n", "d", "e", "f", "i", "n", "e", "d">>

Equal(a, b) == /\ a.type = b.type /\ a.port = b.port
               /\ a.type \in {"ipv4", "ipv6"} /\ a.host = b.host

-----------------------------------------------------------------------------
\* The program.

Become(a) == address' = a /\ UNCHANGED <<printed, text, copy, read>>

\* Of octets, numbers or groups, or of what a socket address or addrinfo holds.
Make(p) == \/ \E h \in Hosts4 : Become(IPv4(h, Truncate(p)))
           \/ \E h \in Hosts6 : Become(IPv6(h, Truncate(p)))

MakeOfText(t) == Become(Parse(t))

\* The port is set whether or not the text was understood.
MakeOfTextAndPort(t, p) == Become([Parse(t) EXCEPT !.port = Truncate(p)])

SetPort(p) == Become([address EXCEPT !.port = Truncate(p)])

Clear == Become(Undefined)

WriteOut == /\ printed' = address /\ text' = ToText(address)
            /\ copy' = Undefined /\ read' = FALSE
            /\ UNCHANGED address

ReadBack == /\ text # << >> /\ copy' = Parse(text) /\ read' = TRUE
            /\ UNCHANGED <<address, printed, text>>

AddressInit == /\ address = Undefined /\ printed = Undefined
        /\ text = << >> /\ copy = Undefined /\ read = FALSE

AddressNext == \/ \E p \in Ports : Make(p) \/ SetPort(p)
        \/ \E t \in Texts : MakeOfText(t) \/ \E p \in Ports : MakeOfTextAndPort(t, p)
        \/ Clear \/ WriteOut \/ ReadBack

AddressSpec == AddressInit /\ [][AddressNext]_addressVars

-----------------------------------------------------------------------------
\* Properties.

Returned == Equal(copy, printed)

(* An address that is printed and parsed comes back, with its port: every     *)
(* IPv4 address, every IPv6 address without a port, and with one those of     *)
(* which the loop that looks for the port sees no ':' but the port's.         *)
Unambiguous(a) ==
    LET t == ToText(a)
    IN a.type = "ipv6" /\ a.port # 0 =>
          \A i \in 4 .. Len(t) : i > Len(t) - 6 /\ t[i] = ":" => i = Len(t) - Len(Numeral(a.port, 10))

RoundTrip == read /\ printed.type # "undefined" /\ Unambiguous(printed) => Returned

(* What Address.cpp:122 says of a text that starts with '[': that it is an    *)
(* IPv6 address in the form "[addr6]:portnum", which is what ToString prints. *)
BracketForm == read /\ printed.type = "ipv6" /\ printed.port # 0 => Returned
=============================================================================
