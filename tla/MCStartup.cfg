CONSTANTS
    Pages <- AllPages
    MaxLines = 5
    ZkClients = {z1, z2}
    Registrar = z1
SPECIFICATION Spec
INVARIANTS Flattened SettingsUsable
PROPERTIES StartsReturn AnnouncedListens
