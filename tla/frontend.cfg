SPECIFICATION Spec
CONSTANTS
    User = {ann, bob}
    NoName = NoName
    ann = ann
    bob = bob
    Admins = {ann}
    Tab = {left_tab, right_tab}
    right_tab = right_tab
    left_tab = left_tab
    MaxFlight = 2
INVARIANTS SignedInTabsAgree RestoredTabsAgree LogoutForgets PagesGuarded
SYMMETRY Tabs
