---------------------------- MODULE MessageCodec ----------------------------
(***************************************************************************)
(* The messages and their JSON form (common/message.cpp).  A message is a  *)
(* function from the members of its class to their values, a JSON object a *)
(* function from its keys to their values; the text of an object, and the  *)
(* number that stands for a type, are left out.                            *)
(***************************************************************************)
EXTENDS Sequences

\* The keys each class writes and requires, and its lists.
RegisterFields   == {"username", "password"}
LoginFields      == {"username", "password"}
LoginLists       == {"offline_messages"}
GetFriendsFields == {"username"}
GetFriendsLists  == {"all_users", "online_users"}
PrivateFields    == {"from_user", "to_user", "content"}
GroupFields      == {"from_user", "to_users", "content"}
LogoutFields     == {"username"}

Fields == [REGISTER     |-> RegisterFields,
           LOGIN        |-> LoginFields,
           GET_FRIENDS  |-> GetFriendsFields,
           PRIVATE_CHAT |-> PrivateFields,
           GROUP_CHAT   |-> GroupFields,
           LOGOUT       |-> LogoutFields]

ListFields == LoginLists \cup GetFriendsLists

Lists == [type \in DOMAIN Fields |->
            IF type = "LOGIN" THEN LoginLists
            ELSE IF type = "GET_FRIENDS" THEN GetFriendsLists ELSE {}]

MessageTypes == DOMAIN Fields
Members(type) == {"type", "success", "message"} \cup Fields[type] \cup Lists[type]

Default(field) == IF field = "success" THEN FALSE
                  ELSE IF field \in ListFields THEN <<>> ELSE ""

\* A constructor with the setters called after it; what is not given has its default.
New(type, given) ==
    [field \in Members(type) |-> IF field = "type" THEN type
                                 ELSE IF field \in DOMAIN given THEN given[field]
                                 ELSE Default(field)]

IsMessage(m) ==
    \E type \in MessageTypes : /\ m = [field \in Members(type) |-> m[field]]
                               /\ m["type"] = type

(* Never writing the lists. *)
ToJsonNoLists(m) == [field \in DOMAIN m \ ListFields |-> m[field]]

\* toJsonString: every member, except a list that is empty.
ToJson(m) ==
    [field \in DOMAIN m \ {list \in ListFields \cap DOMAIN m : m[list] = <<>>} |-> m[field]]

\* fromJsonString: the fields of the class are required, the others may be missing.
Required(type) == Fields[type]

FromJson(type, json) ==
    [field \in Members(type) |-> IF field \in DOMAIN json THEN json[field]
                                                          ELSE Default(field)]

Parses(json) ==
    /\ "type" \in DOMAIN json
    /\ json["type"] \in MessageTypes
    /\ Required(json["type"]) \subseteq DOMAIN json

NoMessage == [type |-> "none"]

CreateMessageFromJson(json) ==
    IF Parses(json) THEN FromJson(json["type"], json) ELSE NoMessage
=============================================================================
