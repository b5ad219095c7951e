SPECIFICATION Spec
CONSTANTS
    User = {"ann", "password", "ann:"}
    Group = {"staff", "update", "staff/member/ann"}
    NoName = ""
    Segment <- Strings
    Pieces <- Split
    Cut <- Colons
    Bearer <- Tokens
    Stray <- Elsewhere
INVARIANTS GatewayTypeOK RoutedAsAimed PathDecides OthersOnlyByAdmins DoneMeansDone
