SPECIFICATION LibrarySpec
CONSTANTS
    Scenes <- MCScenes
    Configs <- MCConfigs
    Buildings <- MCBuildings
    Renderers <- MCRenderers
    Halls <- MCHalls
    StoredScenes <- MCStoredScenes
    FreshMesh = 9
INVARIANTS EnginesAgree RenderSound StoredServes SaveLoadKeeps MergedSound SolversAgree
PROPERTY ImplementsFresh
