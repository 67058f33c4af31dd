SPECIFICATION Spec
CONSTANTS
    Units = {"timer", "boot", "cli"}
    Proxies = {"modem"}
    Others = {"bands", "dns", "vpn", "public"}
    Flaky = {"modem", "vpn", "public"}
    Alone = TRUE
    MaxAborts = 1
INVARIANT StateIsTold
PROPERTIES NoSpam OutageIsTold
