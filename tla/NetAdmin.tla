------------------------------ MODULE NetAdmin ------------------------------
(***************************************************************************)
(* Switching the Wi-Fi profile from the admin page: Manager.Activate, which *)
(* reads the profiles that NetworkManager holds through the text nmcli      *)
(* prints, refuses a name that is not among them, and brings the others up. *)
(*                                                                          *)
(* Names are sequences of characters, since nmcli escapes some of them and  *)
(* splitFields takes the escapes out again.  Every call of nmcli may fail   *)
(* or time out; meanwhile profiles may be deleted.  Names have no spaces     *)
(* around them, which Activate takes off the one it is asked for.           *)
(***************************************************************************)
EXTENDS Naturals, Sequences

CONSTANTS
    Colon, Backslash,  \* the characters nmcli escapes in its terse form
    Letters,           \* other characters
    MaxName,           \* length of the longest name
    Holdings           \* what profiles there may be when the page is asked

Letter   == {Colon, Backslash} \cup Letters
ProfileNames == UNION {[1 .. n -> Letter] : n \in 1 .. MaxName}
Profiles == [name : ProfileNames, wireless : BOOLEAN]

\* The type of a connection has no character that nmcli escapes.
ASSUME NetAssumption ==
    /\ Colon # Backslash /\ {Colon, Backslash} \cap (Letters \cup {"W", "E"}) = {}
    /\ MaxName \in Nat
    /\ Holdings \subseteq SUBSET Profiles

VARIABLES
    saved,    \* the profiles NetworkManager holds
    wanted,    \* the profile of the request
    stage,    \* where Activate is, or how it answered
    listing,  \* what nmcli printed of the profiles
    held      \* history: the profiles of that moment

netVars == <<saved, wanted, stage, listing, held>>

NetTypeOK ==
    /\ saved \subseteq Profiles /\ held \subseteq Profiles
    /\ wanted \in ProfileNames
    /\ stage \in {"device", "wifi", "list", "up", "ok", "error", "unknown"}
    /\ \A line \in listing : line \in Seq(Letter \cup {"W", "E"})

NetInit ==
    /\ saved \in Holdings
    /\ wanted \in ProfileNames
    /\ stage = "device" /\ listing = {} /\ held = {}

-----------------------------------------------------------------------------
\* nmcli -t puts a backslash before a colon or backslash of a value: the next
\* character after those done, and the first i characters of s.
Escape(c, done) ==
    IF c \in {Colon, Backslash} THEN Append(Append(done, Backslash), c) ELSE Append(done, c)

Escapes(s) ==
    LET upTo[i \in 0 .. Len(s)] == IF i = 0 THEN <<>> ELSE Escape(s[i], upTo[i - 1])
    IN  upTo

Escaped(s) == Escapes(s)[Len(s)]

\* NAME, TYPE and DEVICE of a profile; the type is a letter here, W or E, and no
\* profile is active.
Line(p) ==
    Append(Append(Append(Escaped(p.name), Colon), IF p.wireless THEN "W" ELSE "E"), Colon)

\* Mutant: a colon ends a field, escaped or not.
RunePlain(r, acc) ==
    IF r = Colon THEN [acc EXCEPT !.fields = Append(@, acc.cur), !.cur = <<>>]
    ELSE [acc EXCEPT !.cur = Append(@, r)]

\* What the next rune of a line makes of the fields before it and the one it is in:
\* one that follows a backslash belongs to its field.
Rune(r, acc) ==
    IF acc.escaped THEN [acc EXCEPT !.cur = Append(@, r), !.escaped = FALSE]
    ELSE IF r = Backslash THEN [acc EXCEPT !.escaped = TRUE]
    ELSE IF r = Colon THEN [acc EXCEPT !.fields = Append(@, acc.cur), !.cur = <<>>]
    ELSE [acc EXCEPT !.cur = Append(@, r)]

NoFields == [fields |-> <<>>, cur |-> <<>>, escaped |-> FALSE]

Runes(line) ==
    LET upTo[i \in 0 .. Len(line)] == IF i = 0 THEN NoFields ELSE Rune(line[i], upTo[i - 1])
    IN  upTo

\* splitFields: the fields between colons that no backslash precedes.
SplitFields(line) ==
    LET end == Runes(line)[Len(line)] IN Append(end.fields, end.cur)

\* Status().Profiles: lines of three fields of which the second says wireless.
Known(lines) ==
    {f[1] : f \in {g \in {SplitFields(line) : line \in lines} :
                      Len(g) >= 3 /\ g[2] = <<"W">>}}

\* Status reads the devices and what each is associated with, ...
ReadDevices ==
    /\ stage = "device"
    /\ stage' \in {"wifi", "error"}
    /\ UNCHANGED <<saved, wanted, listing, held>>

\* ... where an error only leaves details out, ...
ReadAssociations ==
    /\ stage = "wifi"
    /\ stage' = "list"
    /\ UNCHANGED <<saved, wanted, listing, held>>

\* ... and the profiles, among which the name must be.
ReadProfiles ==
    /\ stage = "list"
    /\ \/ /\ listing' = {Line(p) : p \in saved}
          /\ held' = saved
          /\ stage' = IF wanted \in Known(listing') THEN "up" ELSE "unknown"
       \/ /\ stage' = "error"
          /\ UNCHANGED <<listing, held>>
    /\ UNCHANGED <<saved, wanted>>

\* nmcli connection up: without the profile it fails.
BringUp ==
    /\ stage = "up"
    /\ \/ stage' = "ok" /\ wanted \in {p.name : p \in saved}
       \/ stage' = "error"
    /\ UNCHANGED <<saved, wanted, listing, held>>

\* An operator deletes a profile.
Delete ==
    /\ stage \in {"device", "wifi", "list", "up"}
    /\ \E p \in saved : saved' = saved \ {p}
    /\ UNCHANGED <<wanted, stage, listing, held>>

NetNext == ReadDevices \/ ReadAssociations \/ ReadProfiles \/ BringUp \/ Delete

NetSpec == NetInit /\ [][NetNext]_netVars

-----------------------------------------------------------------------------
\* Only a Wi-Fi profile that NetworkManager held is brought up, a name is never
\* created, and none that it held is called unknown, whatever characters the
\* names of the profiles are made of.
SavedOnly ==
    LET wireless == {p.name : p \in {q \in held : q.wireless}} IN
    /\ stage \in {"up", "ok"} => wanted \in wireless
    /\ stage = "unknown" => wanted \notin wireless
=============================================================================
