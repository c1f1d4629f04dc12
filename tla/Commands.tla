------------------------------ MODULE Commands ------------------------------
(***************************************************************************)
(* What the two programs make of one command, as operators: the request    *)
(* the client builds from a line (input_handler.c), the replies the server *)
(* can give it (clientSession.cpp, commandProcessor.cpp) and what the      *)
(* client's printers show of a reply (output_handler.c).                   *)
(*                                                                         *)
(* A line is its command word, the number of words after it and whether a  *)
(* quantity is numeric.  A request is its command and the names of the     *)
(* payload fields.  What a reply depends on beyond the request (the        *)
(* password, the stock, the database) is left open: an operator returns    *)
(* the set of results that can follow.                                     *)
(***************************************************************************)
EXTENDS Naturals

Blank == "blank"          \* a line of spaces only
Empty == "empty"          \* a line of length zero
Words == {"login", "status", "end", "get_inventory", "get_stock", "update_stock",
          "get_history", "unlock_client", "register_user", "other", Blank, Empty}
Lines == [word: Words, args: 0..3, numeric: BOOLEAN]

Roles == {"admin", "hub", "warehouse"}   \* clientId: "admin", "Hub...", any other
NotLoggedIn == "nobody"

-----------------------------------------------------------------------------
(* The client's side: input_handler.c.                                     *)

process_user_input(line) ==
    IF line.word = "end" /\ line.args = 0 THEN "QUIT"
    ELSE IF line.word = Empty THEN "CONTINUE"
    ELSE "SEND"

Syntax == [status |-> "SYNTAX"]
OutOfMemory == [status |-> "MEMORY"]
Request(command, fields) == [command |-> command, fields |-> fields]

\* Too few words are a syntax error; otherwise cJSON may fail to allocate.
Build(line, fields, needed) ==
    IF line.args < needed THEN {Syntax}
    ELSE {OutOfMemory, [status |-> "SUCCESS", request |-> Request(line.word, fields)]}

build_json_for_get_stock(line) == Build(line, {"category", "item"}, 2)

build_json_for_update_stock(line) ==
    IF line.args >= 3 /\ ~line.numeric THEN {OutOfMemory, Syntax}
    ELSE Build(line, {"category", "item", "quantity"}, 3)

build_json_for_login(line) == Build(line, {"hostname", "password"}, 2)

\* A mutant: the request names the new client as unlock_client does.
RegisterNamesClient(line) ==
    Build(line, {"client_to_unlock", "new_client_password"}, 2)

build_json_for_register_user(line) ==
    Build(line, {"new_client_id", "new_client_password"}, 2)

build_json_for_unlock_client(line) ==
    Build(line, {"client_to_unlock", "secret_phrase"}, 2)

build_json_for_single_command(line) == Build(line, {}, 0)

\* strtok finds no word in a line of spaces, and strcmp reads a null pointer.
build_json_from_input(line) ==
    CASE line.word = Blank           -> {[status |-> "CRASH"]}
      [] line.word = "update_stock"  -> build_json_for_update_stock(line)
      [] line.word = "get_stock"     -> build_json_for_get_stock(line)
      [] line.word = "login"         -> build_json_for_login(line)
      [] line.word = "unlock_client" -> build_json_for_unlock_client(line)
      [] line.word = "register_user" -> build_json_for_register_user(line)
      [] OTHER                       -> build_json_for_single_command(line)

-----------------------------------------------------------------------------
(* The server's side: a result is the reply and whether the session stays. *)
(* "why" tells apart the messages of the replies, "data" the shape of the  *)
(* data field.                                                             *)

Result(status, why, data, keep) ==
    [reply |-> [status |-> status, why |-> why, data |-> data, id |-> FALSE],
     keep |-> keep]
Success(data) == Result("success", "done", data, TRUE)
Error(why) == Result("error", why, "none", TRUE)
\* A std::exception that is not json's: the session closes.
Internal == Result("error", "internal", "none", FALSE)

handleStatusCommand == {Success("none")}

handleEndCommand == {Result("success", "done", "none", FALSE)}

handleGetInventoryCommand == {Success("map"), Error("refused"), Internal}

handleUpdateStockCommand(request, role) ==
    IF role = "hub" THEN {Error("denied")}
    ELSE IF {"category", "item", "quantity"} \subseteq request.fields
    THEN {Success("none"), Error("refused"), Internal}
    ELSE {Error("field")}

handleGetStockCommand(request) ==
    IF {"category", "item"} \subseteq request.fields
    THEN {Success("object"), Error("refused"), Internal}
    ELSE {Error("field")}

handleGetHistoryCommand == {Success("array"), Internal}

handleUnlockClientCommand(request, role) ==
    IF role # "admin" THEN {Error("denied")}
    ELSE IF {"secret_phrase", "client_to_unlock"} \subseteq request.fields
    THEN {Success("none"), Error("refused"), Internal}
    ELSE {Error("field")}

\* createUser returns true or throws, a name already taken included: it never
\* returns the false that "Couldn't register Client" is the answer to.
handleRegisterUser(request, role) ==
    IF role # "admin" THEN {Error("denied")}
    ELSE IF {"new_client_id", "new_client_password"} \subseteq request.fields
    THEN {Success("none"), Internal}
    ELSE {Error("field")}

\* clientSession passes isInMaintenance = false.
processCommand(request, role) ==
    CASE request.command = "status"        -> handleStatusCommand
      [] request.command = "end"           -> handleEndCommand
      [] request.command = "get_inventory" -> handleGetInventoryCommand
      [] request.command = "update_stock"  -> handleUpdateStockCommand(request, role)
      [] request.command = "get_stock"     -> handleGetStockCommand(request)
      [] request.command = "get_history"   -> handleGetHistoryCommand
      [] request.command = "unlock_client" -> handleUnlockClientCommand(request, role)
      [] request.command = "register_user" -> handleRegisterUser(request, role)
      [] OTHER -> {Result("success", "unknown", "none", TRUE)}

Keeping(results, role) == {[result |-> r, role |-> role] : r \in results}

LoggedIn(role) ==
    [result |-> [Success("none") EXCEPT !.reply.id = TRUE], role |-> role]

LoginResults(request) ==
    IF {"hostname", "password"} \subseteq request.fields
    THEN {LoggedIn(role) : role \in Roles}
         \cup Keeping({Error("refused"), Internal}, NotLoggedIn)
    ELSE Keeping({Error("field")}, NotLoggedIn)

\* A mutant: a second login is served as the first one.
LoginAgain(request, role) ==
    IF request.command = "login" THEN LoginResults(request)
    ELSE IF role = NotLoggedIn THEN Keeping({Error("auth")}, role)
    ELSE Keeping(processCommand(request, role), role)

\* The results of a request that parses, each with the role the session then has.
processMessage(request, role) ==
    IF role = NotLoggedIn
    THEN IF request.command = "login" THEN LoginResults(request)
         ELSE Keeping({Error("auth")}, role)
    ELSE Keeping(processCommand(request, role), role)

\* What processMessage answers to text that does not parse.
InvalidJson(role) == Keeping({Error("json")}, role)

-----------------------------------------------------------------------------
(* The client's printers.  Text is what cJSON_Parse returns: a reply, a    *)
(* value that is no object (the tail of a reply may start with a string or *)
(* a number), or null.                                                     *)

NullText == [json |-> "null"]
BareValue == [json |-> "value"]
ReplyText(reply) == [json |-> "reply", reply |-> reply]
Succeeded(text) == text.json = "reply" /\ text.reply.status = "success"

\* The three report printers read status->valuestring unguarded.
PrintReport(text) ==
    CASE text.json = "null"  -> "unparsed"
      [] text.json = "value" -> "crash"
      [] OTHER -> IF text.reply.status = "success" THEN "report" ELSE "message"

print_inventory_response(text) == PrintReport(text)

print_get_stock_response(text) == PrintReport(text)

print_get_history_response(text) == PrintReport(text)

\* post_login_procedures included: a success without client_id is an error.
handle_login_response(text) ==
    CASE text.json = "null"   -> "unparsed"
      [] text.json = "value"  -> "message"
      [] Succeeded(text) /\ text.reply.id -> "login"
      [] OTHER -> "message"

print_readable_response(text, word) ==
    CASE word = "get_inventory" -> print_inventory_response(text)
      [] word = "get_stock"     -> print_get_stock_response(text)
      [] word = "get_history"   -> print_get_history_response(text)
      [] word = "login"         -> handle_login_response(text)
      [] OTHER -> IF text.json = "null" THEN "unparsed" ELSE "message"

=============================================================================
