-------------------------- MODULE MCRegistration --------------------------
(* Small instances of Registration.  In one, a single connection meets every *)
(* hold there is; in another, two compete for a nick, a class and a place    *)
(* among their address's clones, one of them through a web gateway, while    *)
(* bans and exemptions come and go and idents change.                        *)
EXTENDS Registration, TLC

CONSTANTS c1, c2, n1, n2, home, gate, homeName, gateName

Names  == home :> homeName @@ gate :> gateName
Origin == [c \in Conn |-> IF c = c1 /\ gate \in Gateway THEN {home, gate} ELSE {home}]

Block(name, allow, limit, localmax, password) ==
    [name |-> name, allow |-> allow, deny |-> FALSE, limit |-> limit,
     localmax |-> localmax, globalmax |-> 0, password |-> password]

\* Everyone needs a password that is slow to check.
Members == <<Block("member", {home}, 0, 0, "kdf")>>

\* Members are known by their host name, once it is resolved; others are guests.
MembersAndGuests ==
    <<Block("member", {homeName}, 1, 0, "kdf"), Block("guest", {home, gate}, 2, 1, "none")>>

\* Who gives no password has none to wait for.
MembersOrNot ==
    <<Block("member", {homeName}, 0, 0, "kdf"), Block("guest", {home, gate}, 0, 0, "none")>>

\* The same as members, for clients of a gateway, one of them per address.
OnePerAddress == <<Block("member", {home, gate}, 0, 1, "kdf")>>

NoGates == <<>>
OneGate == <<"recaptcha">>

Cmd(c, a) == [cmd |-> c, arg |-> a]

\* The lines that answer the holds of one connection.
Answers == {Cmd("NICK", n1), Cmd("USER", None), Cmd("PASS", "good"), Cmd("CAP_LS", None),
            Cmd("CAP_END", None), Cmd("PONG", "good"), Cmd("PONG", "bad"),
            Cmd("VERIFY", "recaptcha")}

\* The lines with which two connections get in each other's way.
Claims == {Cmd("NICK", n1), Cmd("NICK", n2), Cmd("USER", None), Cmd("PASS", "good"),
           Cmd("WEBIRC", home), Cmd("QUIT", None)}

XL(kind, ident, mask) == [kind |-> kind, mask |-> mask, ident |-> ident]

\* Z-lines come by themselves as well: blocklists, connectban, antirandom.
LoginLines == {XL("A", None, home), XL("Q", None, n1)}
Bans       == {XL("K", "tilde", homeName), XL("E", None, homeName), XL("R", None, n1)}

\* Bans on a host, on one ident and on an address, an exemption of another ident.
IdentBans == {XL("K", None, homeName), XL("K", "real", home), XL("Z", None, home),
              XL("E", "tilde", home)}

\* The lines of a client that registers.
Enters == {Cmd("NICK", n1), Cmd("USER", None), Cmd("PASS", "good")}
=============================================================================
